---- MODULE Spec2Model ----
(***************************************************************************)
(* synapse-operator: the config-hash reconcilers.                          *)
(*                                                                         *)
(* The generalized reconciler (ConfigMap + Secret sources; Deployment,     *)
(* DaemonSet and StatefulSet workloads) is modelled as a state machine     *)
(* over the object store, the controller's work queue and the position of  *)
(* every worker inside Reconcile.  Every call on the store (Get, List,     *)
(* Patch) is one step; between two steps other writers may change the      *)
(* store.  Strings are sequences of bytes; sha256 + hex is modelled as an  *)
(* injective encoding of the bytes fed to the hasher (collision-free).     *)
(***************************************************************************)
EXTENDS Integers, Sequences, FiniteSets, TLC

VARIABLES
    configMaps,   \* store: ConfigMap id -> [Exists, Data, BinaryData]
    secrets,      \* store: Secret id -> [Exists, Data]
    workloads,    \* store: workload id -> [Exists, Annotations, Replicas]
    queue,        \* work queue: requests waiting for a worker
    dirty,        \* work queue: requests re-added while being processed
    pass,         \* worker -> its position and locals inside Reconcile
    lastResult,   \* (ctrl.Result, error) of the pass that returned last
    budget,       \* what the environment may still do (changes, failures)
    obs,          \* history of the passes, read by the properties only
    call          \* the patch appliers called directly: the calls made so far

vars == <<configMaps, secrets, workloads, queue, dirty, pass, lastResult, budget, obs, call>>

-----------------------------------------------------------------------------
(* Bounds of the model *)

\* changes other writers make to the store in one behaviour
MaxChanges == 1
\* store operations that fail in one behaviour
MaxFailures == 1
\* worker goroutines the controller could run; MaxConcurrentReconciles of them do
MaxWorkers == 2

-----------------------------------------------------------------------------
(* Bytes and strings *)

NUL == 0

\* "s", "b", "d", ":" and "/"
ChS == 115
ChB == 98
ChD == 100
ChColon == 58

\* "configmap/" and "secret/"
ConfigMapPrefix == <<99, 111, 110, 102, 105, 103, 109, 97, 112, 47>>
\* Secrets filed under the ConfigMaps' prefix
SecretPrefixSame == ConfigMapPrefix
SecretPrefix == <<115, 101, 99, 114, 101, 116, 47>>

\* entry keys and values used by the store of the model
\* "upstreams.yaml", "app.conf", "tls.key"
UpstreamsYaml == <<117, 112, 115, 116, 114, 101, 97, 109, 115, 46, 121, 97, 109, 108>>
AppConf == <<97, 112, 112, 46, 99, 111, 110, 102>>
TlsKey == <<116, 108, 115, 46, 107, 101, 121>>
\* "x=1", "x=2"
ValX1 == <<120, 61, 49>>
ValX2 == <<120, 61, 50>>

Min(a, b) == IF a <= b THEN a ELSE b

\* Go's string comparison a < b: bytewise lexicographic
StrLess(a, b) ==
    \E i \in 1..(Min(Len(a), Len(b)) + 1) :
        /\ \A j \in 1..(i - 1) : a[j] = b[j]
        /\ \/ i > Len(a) /\ i <= Len(b)
           \/ i <= Len(a) /\ i <= Len(b) /\ a[i] < b[i]

\* the one element of a singleton; with { e(x) : x \in {v} } it gives e of the value v
Only(S) == CHOOSE x \in S : TRUE

\* sort.Strings over a list without duplicates: the ascending sequence of its elements
RECURSIVE SortStrings(_)
SortStrings(S) ==
    Only({ IF keys = {} THEN <<>>
           ELSE Only({ <<m>> \o SortStrings(keys \ {m}) :
                         m \in { x \in keys : \A y \in keys \ {x} : StrLess(x, y) } }) :
           keys \in {S} })

\* hex.EncodeToString(hasher.Sum(nil)) over the bytes written to the hasher:
\* a non-empty, NUL-free string that determines its input (no collisions)
HexDigest(input) ==
    Only({ <<256>> \o [i \in 1..Len(bytes) |-> bytes[i] + 257] : bytes \in {input} })

\* the empty fingerprint ""
EmptyHash == <<>>

-----------------------------------------------------------------------------
(* Fingerprints *)

\* no key is ever ignored
shouldIgnoreKeyNever(key, ignoredKeys) == FALSE

shouldIgnoreKey(key, ignoredKeys) ==
    IF Cardinality(ignoredKeys) = 0 THEN FALSE ELSE key \in ignoredKeys

\* the bytes hashConfigMapContent writes for one tagged key k of the sorted list
ConfigMapEntryBytes(cfg, k) ==
    LET key == SubSeq(k, 3, Len(k))
    IN  (IF Len(k) > 2 /\ SubSeq(k, 1, 2) = <<ChS, ChColon>>
            THEN <<ChS>> \o key \o <<NUL>> \o cfg.Data[key]
         ELSE IF Len(k) > 2 /\ SubSeq(k, 1, 2) = <<ChB, ChColon>>
            THEN <<ChB>> \o key \o <<NUL>> \o cfg.BinaryData[key]
         ELSE <<>>) \o <<NUL>>

RECURSIVE ConfigMapHashInput(_, _)
ConfigMapHashInput(cfg, keys) ==
    Only({ IF ks = <<>> THEN <<>>
           ELSE Only({ ConfigMapEntryBytes(cfg, k) : k \in {Head(ks)} })
                   \o ConfigMapHashInput(cfg, Tail(ks)) :
           ks \in {keys} })

hashConfigMapContent(cfg, ignoredKeys) ==
    IF Cardinality(DOMAIN cfg.Data) = 0 /\ Cardinality(DOMAIN cfg.BinaryData) = 0
    THEN EmptyHash
    ELSE Only({ IF Cardinality(keys) = 0 THEN EmptyHash
                ELSE HexDigest(ConfigMapHashInput(cfg, SortStrings(keys))) :
                keys \in { {<<ChS, ChColon>> \o k : k \in {x \in DOMAIN cfg.Data : ~shouldIgnoreKey(x, ignoredKeys)}}
                           \cup {<<ChB, ChColon>> \o k : k \in {x \in DOMAIN cfg.BinaryData : ~shouldIgnoreKey(x, ignoredKeys)}} } })

RECURSIVE SecretHashInput(_, _)
SecretHashInput(secret, keys) ==
    Only({ IF ks = <<>> THEN <<>>
           ELSE Only({ <<ChD>> \o key \o <<NUL>> \o secret.Data[key] \o <<NUL>> :
                         key \in {SubSeq(Head(ks), 3, Len(Head(ks)))} })
                   \o SecretHashInput(secret, Tail(ks)) :
           ks \in {keys} })

hashSecretContent(secret, ignoredKeys) ==
    IF Cardinality(DOMAIN secret.Data) = 0 THEN EmptyHash
    ELSE Only({ IF Cardinality(keys) = 0 THEN EmptyHash
                ELSE HexDigest(SecretHashInput(secret, SortStrings(keys))) :
                keys \in { {<<ChD, ChColon>> \o k : k \in {x \in DOMAIN secret.Data : ~shouldIgnoreKey(x, ignoredKeys)}} } })

\* sort.Slice(entries, key less): insertion of e into an ascending list
RECURSIVE InsertEntry(_, _)
InsertEntry(e, sorted) ==
    Only({ IF rest = <<>> THEN <<e>>
           ELSE IF StrLess(e.key, Head(rest).key) THEN <<e>> \o rest
           ELSE <<Head(rest)>> \o InsertEntry(e, Tail(rest)) :
           rest \in {sorted} })

RECURSIVE SortEntries(_)
\* the entries left in the order the loops appended them
SortEntriesNone(entries) == entries

SortEntries(entries) ==
    Only({ IF es = <<>> THEN <<>>
           ELSE Only({ InsertEntry(e, SortEntries(Tail(es))) : e \in {Head(es)} }) :
           es \in {entries} })

RECURSIVE EntriesHashInput(_)
EntriesHashInput(entries) ==
    Only({ IF es = <<>> THEN <<>>
           ELSE Head(es).key \o <<NUL>> \o Head(es).hash \o <<NUL>>
                   \o EntriesHashInput(Tail(es)) :
           es \in {entries} })

\* every ConfigMap appended, the ones with an empty hash too
ConfigMapEntriesKeepEmpty(cms, ignoredKeys) ==
    [i \in 1..Len(cms) |->
        [key |-> ConfigMapPrefix \o cms[i].Name, hash |-> hashConfigMapContent(cms[i], ignoredKeys)]]

\* the entries the two loops append, in list order, sources with an empty hash skipped
RECURSIVE ConfigMapEntries(_, _)
ConfigMapEntries(cms, ignoredKeys) ==
    Only({ IF items = <<>> THEN <<>>
           ELSE Only({ IF hash = EmptyHash THEN <<>>
                       ELSE <<[key |-> ConfigMapPrefix \o Head(items).Name, hash |-> hash]>> :
                       hash \in {hashConfigMapContent(Head(items), ignoredKeys)} })
                   \o ConfigMapEntries(Tail(items), ignoredKeys) :
           items \in {cms} })

RECURSIVE SecretEntries(_, _)
SecretEntries(secs, ignoredKeys) ==
    Only({ IF items = <<>> THEN <<>>
           ELSE Only({ IF hash = EmptyHash THEN <<>>
                       ELSE <<[key |-> SecretPrefix \o Head(items).Name, hash |-> hash]>> :
                       hash \in {hashSecretContent(Head(items), ignoredKeys)} })
                   \o SecretEntries(Tail(items), ignoredKeys) :
           items \in {secs} })

\* the two exclusion sets handed to the wrong loops
hashConfigSourcesSwapped(cms, secs, ignoredConfigMapKeys, ignoredSecretKeys) ==
    Only({ IF Len(entries) = 0 THEN EmptyHash
           ELSE HexDigest(EntriesHashInput(SortEntries(entries))) :
           entries \in { ConfigMapEntries(cms, ignoredSecretKeys)
                           \o SecretEntries(secs, ignoredConfigMapKeys) } })

hashConfigSources(cms, secs, ignoredConfigMapKeys, ignoredSecretKeys) ==
    Only({ IF Len(entries) = 0 THEN EmptyHash
           ELSE HexDigest(EntriesHashInput(SortEntries(entries))) :
           entries \in { ConfigMapEntries(cms, ignoredConfigMapKeys)
                           \o SecretEntries(secs, ignoredSecretKeys) } })

-----------------------------------------------------------------------------
(* Configuration: the flags' defaults of main *)

LabelKey == "app.kubernetes.io/name"
LabelValue == "synapse"

\* -label-selector, parsed: the key=value requirements
LabelSelector == {<<LabelKey, LabelValue>>}
\* -config-hash-annotation
ConfigHashAnnotation == "synapse.gen0sec.com/config-hash"
\* -ignore-configmap-keys and -ignore-secret-keys, parsed by parseKeySet (nil is the empty set)
IgnoredConfigMapKeys == {UpstreamsYaml}
IgnoredSecretKeys == {}

\* controller.Options of SetupWithManager
\* the option set to two workers
MaxConcurrentReconcilesTwo == 1 + 1

MaxConcurrentReconciles == 1

\* selector.Matches(labels.Set(obj.GetLabels()))
Matches(selector, labels) ==
    \A r \in selector : r[1] \in DOMAIN labels /\ labels[r[1]] = r[2]

-----------------------------------------------------------------------------
(* The object store *)

Namespaces == {"n1"}

ConfigMapIds == {"app"}
SecretIds == {"tls"}
DeploymentIds == {"d1", "d2"}
DaemonSetIds == {"ds1"}
StatefulSetIds == {"ss1"}
WorkloadIds == DeploymentIds \cup DaemonSetIds \cup StatefulSetIds

\* metadata that no step of the model changes
\* Deployments out of the reach of a pass in "n1": one in another namespace, one
\* whose label has another value
OtherNamespaceId == "dx"
OtherLabelId == "dl"
ForeignIds == {OtherNamespaceId, OtherLabelId}
\* a ConfigMap whose label has another value
OtherConfigMapId == "cx"
ObjNamespace(id) == IF id = OtherNamespaceId THEN "n2" ELSE "n1"
ObjLabels(id) ==
    IF id \in {OtherLabelId, OtherConfigMapId} THEN (LabelKey :> "other")
    ELSE (LabelKey :> LabelValue)
ObjName(id) ==
    CASE id = "app" -> <<97, 112, 112>>
      [] id = "tls" -> <<116, 108, 115>>
      [] OTHER -> <<>>

\* an annotation of the pod template that is not the operator's
RestartedAt == "kubectl.kubernetes.io/restartedAt"
AnnotationKeys == {ConfigHashAnnotation, RestartedAt}
NoAnnotations == [k \in AnnotationKeys |-> <<>>]

NoConfigMap == [Exists |-> FALSE, Data |-> <<>>, BinaryData |-> <<>>]
NoSecret == [Exists |-> FALSE, Data |-> <<>>]
NoWorkload == [Exists |-> FALSE, Annotations |-> NoAnnotations, Replicas |-> 1]

\* what other writers put into the store
ConfigMapContents ==
    { [Exists |-> TRUE, Data |-> (AppConf :> ValX1), BinaryData |-> <<>>],
      [Exists |-> TRUE, Data |-> (AppConf :> ValX2), BinaryData |-> <<>>],
      [Exists |-> TRUE, Data |-> (UpstreamsYaml :> ValX1), BinaryData |-> <<>>],
      NoConfigMap }
\* what the store holds when the controller starts
InitialConfigMaps ==
    { [Exists |-> TRUE, Data |-> (AppConf :> ValX1), BinaryData |-> <<>>], NoConfigMap }
SecretContents ==
    { [Exists |-> TRUE, Data |-> (TlsKey :> ValX1)],
      NoSecret }
\* "old": a marker some other writer sets
OldMarker == <<111, 108, 100>>
\* "now": a value of the restartedAt annotation
NowValue == <<110, 111, 119>>

Request(id) == [Namespace |-> ObjNamespace(id), Name |-> id]
\* the names a trigger can carry: the sources and a name no object has
Requests == { Request(id) : id \in ConfigMapIds \cup SecretIds }
                \cup { [Namespace |-> ns, Name |-> "gone"] : ns \in Namespaces }

\* a list call without its two options
ListedEverywhere(store, ids, namespace, selector) ==
    { id \in ids \cap DOMAIN store : store[id].Exists }

\* r.List(ctx, list, InNamespace(namespace), MatchingLabelsSelector{selector}): the ids returned
Listed(store, ids, namespace, selector) ==
    { id \in ids \cap DOMAIN store :
                   /\ store[id].Exists
                   /\ ObjNamespace(id) = namespace
                   /\ Matches(selector, ObjLabels(id)) }

\* the orders in which a list call can return a set of objects
RECURSIVE Orderings(_)
Orderings(S) ==
    IF S = {} THEN {<<>>}
    ELSE UNION { { <<x>> \o t : t \in Orderings(S \ {x}) } : x \in S }

-----------------------------------------------------------------------------
(* Errors *)

NoErr == [kind |-> "nil", op |-> ""]
\* what a failing store operation returns: the error names the operation
StoreErr(op) == [kind |-> "Internal", op |-> op]
NotFoundErr(op) == [kind |-> "NotFound", op |-> op]
\* apierrors.IsNotFound
IsNotFound(err) == err.kind = "NotFound"

-----------------------------------------------------------------------------
(* The patch appliers *)

\* the diff taken from the object after it was modified (original not a copy)
MergeFromAliased(original, modified) ==
    [ Annotations |-> { <<k, modified.Annotations[k]>> :
                          k \in { a \in AnnotationKeys :
                                    modified.Annotations[a] # modified.Annotations[a] } },
      Replicas |-> IF modified.Replicas # modified.Replicas
                   THEN <<modified.Replicas>> ELSE <<>> ]

\* the diff taken from an empty object: every field of the snapshot is sent
MergeFromEmpty(original, modified) ==
    [ Annotations |-> { <<k, modified.Annotations[k]>> : k \in AnnotationKeys },
      Replicas |-> <<modified.Replicas>> ]

\* client.MergeFrom(original) for the modified object: the fields that differ
MergeFrom(original, modified) ==
    [ Annotations |-> { <<k, modified.Annotations[k]>> :
                          k \in { a \in AnnotationKeys :
                                    modified.Annotations[a] # original.Annotations[a] } },
      Replicas |-> IF modified.Replicas # original.Replicas
                   THEN <<modified.Replicas>> ELSE <<>> ]

\* the store applying a merge patch to the object it holds
ApplyMergePatch(current, patch) ==
    [ current EXCEPT
        !.Annotations = [ k \in AnnotationKeys |->
                            IF \E e \in patch.Annotations : e[1] = k
                            THEN (CHOOSE e \in patch.Annotations : e[1] = k)[2]
                            ELSE current.Annotations[k] ],
        !.Replicas = IF patch.Replicas = <<>> THEN current.Replicas
                     ELSE patch.Replicas[1] ]

\* the applier without the test of the marker it finds
patchDeploymentHashAlways(deploy, annotationKey, hash, patchErr) ==
    LET original == deploy
        modified == [deploy EXCEPT !.Annotations[annotationKey] = hash]
    IN  [changed |-> TRUE, err |-> patchErr,
         patch |-> <<MergeFrom(original, modified)>>, obj |-> modified]

\* patchErr is what c.Patch returns when it is called.  The result: the two values
\* returned, the patch handed to c.Patch (<<>> when it is not called) and the
\* object as the call leaves it
patchDeploymentHash(deploy, annotationKey, hash, patchErr) ==
    LET original == deploy
        modified == [deploy EXCEPT !.Annotations[annotationKey] = hash]
    IN  IF deploy.Annotations[annotationKey] = hash
        THEN [changed |-> FALSE, err |-> NoErr, patch |-> <<>>, obj |-> deploy]
        ELSE [changed |-> TRUE, err |-> patchErr,
              patch |-> <<MergeFrom(original, modified)>>, obj |-> modified]

\* the applier without the test of the marker it finds
patchDaemonSetHashAlways(daemonSet, annotationKey, hash, patchErr) ==
    LET original == daemonSet
        modified == [daemonSet EXCEPT !.Annotations[annotationKey] = hash]
    IN  [changed |-> TRUE, err |-> patchErr,
         patch |-> <<MergeFrom(original, modified)>>, obj |-> modified]

patchDaemonSetHash(daemonSet, annotationKey, hash, patchErr) ==
    LET original == daemonSet
        modified == [daemonSet EXCEPT !.Annotations[annotationKey] = hash]
    IN  IF daemonSet.Annotations[annotationKey] = hash
        THEN [changed |-> FALSE, err |-> NoErr, patch |-> <<>>, obj |-> daemonSet]
        ELSE [changed |-> TRUE, err |-> patchErr,
              patch |-> <<MergeFrom(original, modified)>>, obj |-> modified]

\* the applier returning err == nil as its flag
patchStatefulSetHashFlagFromErr(statefulSet, annotationKey, hash, patchErr) ==
    LET original == statefulSet
        modified == [statefulSet EXCEPT !.Annotations[annotationKey] = hash]
    IN  IF statefulSet.Annotations[annotationKey] = hash
        THEN [changed |-> FALSE, err |-> NoErr, patch |-> <<>>, obj |-> statefulSet]
        ELSE [changed |-> patchErr = NoErr, err |-> patchErr,
              patch |-> <<MergeFrom(original, modified)>>, obj |-> modified]

patchStatefulSetHash(statefulSet, annotationKey, hash, patchErr) ==
    LET original == statefulSet
        modified == [statefulSet EXCEPT !.Annotations[annotationKey] = hash]
    IN  IF statefulSet.Annotations[annotationKey] = hash
        THEN [changed |-> FALSE, err |-> NoErr, patch |-> <<>>, obj |-> statefulSet]
        ELSE [changed |-> TRUE, err |-> patchErr,
              patch |-> <<MergeFrom(original, modified)>>, obj |-> modified]

Kinds == {"Deployment", "DaemonSet", "StatefulSet"}
KindIds(kind) ==
    CASE kind = "Deployment" -> DeploymentIds \cup ForeignIds
      [] kind = "DaemonSet" -> DaemonSetIds
      [] kind = "StatefulSet" -> StatefulSetIds
KindOf(id) == CHOOSE kind \in Kinds : id \in KindIds(kind)

\* the appliers handed the empty string for the hash
PatchHashEmpty(kind, obj, annotationKey, hash, patchErr) ==
    patchDeploymentHash(obj, annotationKey, EmptyHash, patchErr)

\* the applier each of patchDeployments, patchDaemonSets, patchStatefulSets calls
PatchHash(kind, obj, annotationKey, hash, patchErr) ==
    CASE kind = "Deployment" -> patchDeploymentHash(obj, annotationKey, hash, patchErr)
      [] kind = "DaemonSet" -> patchDaemonSetHash(obj, annotationKey, hash, patchErr)
      [] kind = "StatefulSet" -> patchStatefulSetHash(obj, annotationKey, hash, patchErr)

-----------------------------------------------------------------------------
(* Reconcile: what the code does between two calls on the store *)

Workers == 1..MaxWorkers

NoRequest == [Namespace |-> "", Name |-> ""]
IdlePass == [pc |-> "idle", req |-> NoRequest, cms |-> <<>>, hash |-> EmptyHash, items |-> <<>>]

\* where a pass stands after a step: in p, or returned with err
Goto(p, pc) == [p |-> [p EXCEPT !.pc = pc], done |-> FALSE, err |-> NoErr]
\* Reconcile returning nil whatever the error
ReturnNil(p, err) == [p |-> p, done |-> TRUE, err |-> NoErr]
Return(p, err) == [p |-> p, done |-> TRUE, err |-> err]

\* r.selector()
selector == LabelSelector

\* Reconcile returning every error of r.Get of the ConfigMap, not-found too
AfterGetConfigMapStrict(p, err) ==
    IF err = NoErr THEN Goto(p, "ListConfigMaps") ELSE Return(p, err)

\* Reconcile after r.Get of the ConfigMap
AfterGetConfigMap(p, err) ==
    IF err = NoErr THEN Goto(p, "ListConfigMaps")
    ELSE IF ~IsNotFound(err) THEN Return(p, err)
    ELSE Goto(p, "GetSecret")

\* Reconcile returning nil for a name that is neither a ConfigMap nor a Secret
AfterGetSecretStop(p, err) ==
    IF err = NoErr THEN Goto(p, "ListConfigMaps")
    ELSE IF ~IsNotFound(err) THEN Return(p, err)
    ELSE Return(p, NoErr)

\* Reconcile after r.Get of the Secret
AfterGetSecret(p, err) ==
    IF err = NoErr THEN Goto(p, "ListConfigMaps")
    ELSE IF ~IsNotFound(err) THEN Return(p, err)
    ELSE Goto(p, "ListConfigMaps")

\* computeCombinedHash after the list of the ConfigMaps
AfterListConfigMaps(p, err, items) ==
    IF err # NoErr THEN Return(p, err)
    ELSE Goto([p EXCEPT !.cms = items], "ListSecrets")

\* the pc of the list call that opens the loop over a kind
ListPc(kind) ==
    CASE kind = "Deployment" -> "ListDeployments"
      [] kind = "DaemonSet" -> "ListDaemonSets"
      [] kind = "StatefulSet" -> "ListStatefulSets"
PatchPc(kind) ==
    CASE kind = "Deployment" -> "PatchDeployment"
      [] kind = "DaemonSet" -> "PatchDaemonSet"
      [] kind = "StatefulSet" -> "PatchStatefulSet"

\* Reconcile calling patchStatefulSets before patchDaemonSets
AfterKindSwapped(p, kind) ==
    CASE kind = "Deployment" -> Goto(p, ListPc("StatefulSet"))
      [] kind = "StatefulSet" -> Goto(p, ListPc("DaemonSet"))
      [] kind = "DaemonSet" -> Return(p, NoErr)

\* Reconcile once the loop over a kind has returned nil
AfterKind(p, kind) ==
    CASE kind = "Deployment" -> Goto(p, ListPc("DaemonSet"))
      [] kind = "DaemonSet" -> Goto(p, ListPc("StatefulSet"))
      [] kind = "StatefulSet" -> Return(p, NoErr)

\* the loop of patchDeployments / patchDaemonSets / patchStatefulSets up to its
\* next call of c.Patch: the items that are up to date are passed over
RECURSIVE LoopItems(_, _)
LoopItems(p, kind) ==
    IF p.items = <<>> THEN AfterKind(p, kind)
    ELSE IF PatchHash(kind, Head(p.items).obj, ConfigHashAnnotation, p.hash, NoErr).changed
         THEN Goto(p, PatchPc(kind))
         ELSE LoopItems([p EXCEPT !.items = Tail(p.items)], kind)

\* the loop body going on to the next item whatever the applier returned
AfterPatchContinue(p, kind, res) ==
    LoopItems([p EXCEPT !.items = Tail(p.items)], kind)

\* the loop body after the applier has returned for the first item
AfterPatch(p, kind, res) ==
    IF res.err # NoErr THEN Return(p, res.err)
    ELSE LoopItems([p EXCEPT !.items = Tail(p.items)], kind)

\* Reconcile returning nil once a kind has no member
AfterListWorkloadsStop(p, kind, err, items) ==
    IF err # NoErr THEN Return(p, err)
    ELSE IF items = <<>> THEN Return(p, NoErr)
    ELSE LoopItems([p EXCEPT !.items = items], kind)

\* patchDeployments / patchDaemonSets / patchStatefulSets after their list call
AfterListWorkloads(p, kind, err, items) ==
    IF err # NoErr THEN Return(p, err)
    ELSE LoopItems([p EXCEPT !.items = items], kind)

\* Reconcile without the test of the hash it computed
AfterListSecretsNoTest(p, err, items) ==
    IF err # NoErr THEN Return(p, err)
    ELSE Goto([p EXCEPT !.hash = hashConfigSources(p.cms, items, IgnoredConfigMapKeys, IgnoredSecretKeys),
                        !.cms = <<>>], ListPc("Deployment"))

\* Reconcile returning after computeCombinedHash whatever the hash
AfterListSecretsWithReturn(p, err, items, ignoredConfigMapKeys, ignoredSecretKeys) ==
    Return(p, err)

\* computeCombinedHash after the list of the Secrets, and Reconcile's test of the
\* hash, for a reconciler with the given r.IgnoredConfigMapKeys, r.IgnoredSecretKeys
AfterListSecretsWith(p, err, items, ignoredConfigMapKeys, ignoredSecretKeys) ==
    IF err # NoErr THEN Return(p, err)
    ELSE Only({ IF hash = EmptyHash THEN Return(p, NoErr)
                ELSE Goto([p EXCEPT !.hash = hash, !.cms = <<>>], ListPc("Deployment")) :
                hash \in {hashConfigSources(p.cms, items, ignoredConfigMapKeys, ignoredSecretKeys)} })

\* the same for the reconciler main constructs from the flags' defaults
AfterListSecrets(p, err, items) ==
    AfterListSecretsWith(p, err, items, IgnoredConfigMapKeys, IgnoredSecretKeys)

-----------------------------------------------------------------------------
(* The state machine *)

\* what a list call returns for one object
ConfigMapItem(id) ==
    [Name |-> ObjName(id), Data |-> configMaps[id].Data, BinaryData |-> configMaps[id].BinaryData]
SecretItem(id) == [Name |-> ObjName(id), Data |-> secrets[id].Data]
WorkloadItem(id) == [id |-> id, obj |-> workloads[id]]

\* the aggregate fingerprint of the sources the store holds now
StoreHash(cmStore, secStore, namespace) ==
    LET cmOrder == CHOOSE o \in Orderings(Listed(cmStore, ConfigMapIds, namespace, selector)) : TRUE
        secOrder == CHOOSE o \in Orderings(Listed(secStore, SecretIds, namespace, selector)) : TRUE
    IN  hashConfigSources(
            [i \in 1..Len(cmOrder) |-> [Name |-> ObjName(cmOrder[i]), Data |-> cmStore[cmOrder[i]].Data,
                                        BinaryData |-> cmStore[cmOrder[i]].BinaryData]],
            [i \in 1..Len(secOrder) |-> [Name |-> ObjName(secOrder[i]), Data |-> secStore[secOrder[i]].Data]],
            IgnoredConfigMapKeys, IgnoredSecretKeys)

InFlight(w) == pass[w].pc # "idle"

\* obs, per worker and for its pass in flight or, once it has returned, its last pass:
\*   patched   the workloads c.Patch was called for
\*   stale     those of them the store held changed since they were listed
\*   failed    the error of the first store operation that failed
\*   noSignal  the sources were empty after filtering from its start to its return
\*   newer, overtaken   the passes started after it, and what they have patched
\* and for the namespace:
\*   touched, srcChanged   what other writers changed since the last pass started
\*   quiet        a pass returned nil and nothing was changed by others since it started
\*   quietReturn  a pass returned nil and nothing was changed by others since it returned
\*   returned     the worker whose pass returned last, 0 once a pass has started since
InitObs ==
    [ patched |-> [w \in Workers |-> {}],
      stale |-> [w \in Workers |-> {}],
      failed |-> [w \in Workers |-> NoErr],
      noSignal |-> [w \in Workers |-> FALSE],
      newer |-> [w \in Workers |-> {}],
      overtaken |-> [w \in Workers |-> {}],
      outOfOrder |-> FALSE,
      touched |-> {},
      srcChanged |-> FALSE,
      quiet |-> FALSE,
      quietReturn |-> FALSE,
      returned |-> 0 ]

NoCall == [phase |-> "off"]

\* ctrl.Result{}, nil
NoResult == [err |-> NoErr, Requeue |-> FALSE]

\* the store as the controller finds it when it starts; the informers' first
\* list delivers one event for every source that matches
Init ==
    /\ configMaps \in [ConfigMapIds -> InitialConfigMaps]
    /\ secrets \in [SecretIds -> SecretContents]
    /\ \E present \in {WorkloadIds, WorkloadIds \ StatefulSetIds} :
          workloads = [id \in WorkloadIds |->
                         IF id \in present THEN [NoWorkload EXCEPT !.Exists = TRUE] ELSE NoWorkload]
    /\ queue = { Request(id) : id \in { c \in ConfigMapIds : configMaps[c].Exists }
                                       \cup { x \in SecretIds : secrets[x].Exists } }
    /\ dirty = {}
    /\ pass = [w \in Workers |-> IdlePass]
    /\ lastResult = NoResult
    /\ budget = [changes |-> MaxChanges, failures |-> MaxFailures]
    /\ obs = InitObs
    /\ call = NoCall

\* the work queue's Add: a request that is being processed is kept for later
Enqueue(req) ==
    IF \E w \in Workers : InFlight(w) /\ pass[w].req = req
    THEN /\ dirty' = dirty \cup {req}
         /\ queue' = queue
    ELSE /\ queue' = queue \cup {req}
         /\ dirty' = dirty

\* the watch predicate of SetupWithManager: the events that become requests
matchesSelector(id) == Matches(selector, ObjLabels(id))

SpendChange == budget' = [budget EXCEPT !.changes = @ - 1]

ObsAfterSourceChange(cmStore, secStore) ==
    [obs EXCEPT !.srcChanged = TRUE, !.quiet = FALSE, !.quietReturn = FALSE,
                !.noSignal = [w \in Workers |->
                                IF InFlight(w)
                                THEN obs.noSignal[w]
                                     /\ StoreHash(cmStore, secStore, pass[w].req.Namespace) = EmptyHash
                                ELSE obs.noSignal[w]]]

ObsAfterWorkloadChange(id) ==
    [obs EXCEPT !.touched = @ \cup {id}, !.quiet = FALSE, !.quietReturn = FALSE]

\* another writer creates, updates or deletes a ConfigMap
ChangeConfigMap(id) ==
    /\ budget.changes > 0
    /\ \E c \in ConfigMapContents \ {configMaps[id]} :
          /\ configMaps' = [configMaps EXCEPT ![id] = c]
          /\ obs' = ObsAfterSourceChange([configMaps EXCEPT ![id] = c], secrets)
    /\ IF matchesSelector(id) THEN Enqueue(Request(id))
       ELSE UNCHANGED <<queue, dirty>>
    /\ SpendChange
    /\ UNCHANGED <<secrets, workloads, pass, lastResult, call>>

\* another writer creates, updates or deletes a Secret
ChangeSecret(id) ==
    /\ budget.changes > 0
    /\ \E c \in SecretContents \ {secrets[id]} :
          /\ secrets' = [secrets EXCEPT ![id] = c]
          /\ obs' = ObsAfterSourceChange(configMaps, [secrets EXCEPT ![id] = c])
    /\ IF matchesSelector(id) THEN Enqueue(Request(id))
       ELSE UNCHANGED <<queue, dirty>>
    /\ SpendChange
    /\ UNCHANGED <<configMaps, workloads, pass, lastResult, call>>

\* a watch on the workloads: a change of one enqueues the sources of its
\* namespace
WorkloadChangeWatched(id, obj) ==
    /\ budget.changes > 0
    /\ workloads' = [workloads EXCEPT ![id] = obj]
    /\ obs' = ObsAfterWorkloadChange(id)
    /\ SpendChange
    /\ queue' = queue \cup { Request(c) : c \in ConfigMapIds }
    /\ UNCHANGED <<configMaps, secrets, dirty, pass, lastResult, call>>

\* another writer changes a workload: no watch is set on workloads, nothing is
\* enqueued
WorkloadChange(id, obj) ==
    /\ budget.changes > 0
    /\ workloads' = [workloads EXCEPT ![id] = obj]
    /\ obs' = ObsAfterWorkloadChange(id)
    /\ SpendChange
    /\ UNCHANGED <<configMaps, secrets, queue, dirty, pass, lastResult, call>>

\* another writer sets or removes the marker of a workload
EditMarker(id) ==
    /\ workloads[id].Exists
    /\ \E v \in {<<>>, OldMarker} \ {workloads[id].Annotations[ConfigHashAnnotation]} :
          WorkloadChange(id, [workloads[id] EXCEPT !.Annotations[ConfigHashAnnotation] = v])

\* another writer edits what is not the marker: it scales the workload and sets
\* another annotation of the pod template
EditOther(id) ==
    /\ workloads[id].Exists
    /\ workloads[id].Annotations[RestartedAt] # NowValue
    /\ WorkloadChange(id, [workloads[id] EXCEPT !.Annotations[RestartedAt] = NowValue,
                                                !.Replicas = @ + 1])

\* another writer creates a workload
CreateWorkload(id) ==
    /\ ~workloads[id].Exists
    /\ WorkloadChange(id, [NoWorkload EXCEPT !.Exists = TRUE])

\* the watch layer delivers a request again, or one for a name that is gone
Redeliver(req) ==
    /\ queue = {}
    /\ \A w \in Workers : ~InFlight(w)
    /\ Enqueue(req)
    /\ UNCHANGED <<configMaps, secrets, workloads, pass, lastResult, budget, obs, call>>

\* a worker takes a request off the queue and enters Reconcile
StartPass(w) ==
    /\ w <= MaxConcurrentReconciles
    /\ ~InFlight(w)
    /\ \E req \in queue :
          /\ queue' = queue \ {req}
          /\ pass' = [pass EXCEPT ![w] = [IdlePass EXCEPT !.pc = "GetConfigMap", !.req = req]]
          /\ obs' = [obs EXCEPT
                        !.patched[w] = {},
                        !.stale[w] = {},
                        !.failed[w] = NoErr,
                        !.noSignal[w] = StoreHash(configMaps, secrets, req.Namespace) = EmptyHash,
                        !.newer = [v \in Workers |->
                                     IF v # w /\ InFlight(v) THEN obs.newer[v] \cup {w} ELSE {}],
                        !.overtaken[w] = {},
                        !.touched = {},
                        !.srcChanged = FALSE,
                        !.returned = 0]
    /\ lastResult' = NoResult
    /\ UNCHANGED <<configMaps, secrets, workloads, dirty, budget, call>>

\* the history after a step of worker w: the store operation failed with err (nil
\* when it did not fail), and c.Patch was called for the workloads in patchedIds
ObsAfterStep(w, out, err, patchedIds) ==
    [obs EXCEPT
        !.patched[w] = @ \cup patchedIds,
        !.stale[w] = @ \cup { id \in patchedIds : Head(pass[w].items).obj # workloads[id] },
        !.failed[w] = IF @ = NoErr THEN err ELSE @,
        !.newer = [v \in Workers |->
                     IF out.done THEN (IF v = w THEN {} ELSE obs.newer[v] \ {w})
                     ELSE obs.newer[v]],
        !.overtaken = [v \in Workers |->
                         IF v = w THEN (IF out.done THEN {} ELSE obs.overtaken[v])
                         ELSE IF w \in obs.newer[v] THEN obs.overtaken[v] \cup patchedIds
                         ELSE obs.overtaken[v]],
        !.outOfOrder = @ \/ (patchedIds \cap obs.overtaken[w] # {}),
        !.quiet = IF out.done /\ out.err = NoErr
                  THEN obs.touched = {} /\ ~obs.srcChanged ELSE @,
        !.quietReturn = IF out.done /\ out.err = NoErr THEN TRUE ELSE @,
        !.returned = IF out.done THEN w ELSE @ ]

\* the controller after Reconcile has returned: a request that failed is added
\* again (rate limited), one that was re-added meanwhile goes back to the queue
PassStep(w, out, err, patchedIds) ==
    \E o \in {out} :
        /\ pass' = [pass EXCEPT ![w] = IF o.done THEN IdlePass ELSE o.p]
        /\ lastResult' = IF o.done THEN [err |-> o.err, Requeue |-> FALSE] ELSE lastResult
        /\ queue' = IF o.done
                    THEN queue \cup (IF o.err # NoErr THEN {pass[w].req} ELSE {})
                               \cup (dirty \cap {pass[w].req})
                    ELSE queue
        /\ dirty' = IF o.done THEN dirty \ {pass[w].req} ELSE dirty
        /\ obs' = ObsAfterStep(w, o, err, patchedIds)

\* the outcomes of a read: nil, or an error while the store may still fail
ReadFails(op, err) ==
    /\ err = StoreErr(op)
    /\ budget.failures > 0
    /\ budget' = [budget EXCEPT !.failures = @ - 1]

\* r.Get(ctx, req.NamespacedName, &cfg)
GetConfigMap(w) ==
    /\ pass[w].pc = "GetConfigMap"
    /\ LET req == pass[w].req
           found == /\ req.Name \in ConfigMapIds
                    /\ configMaps[req.Name].Exists
                    /\ ObjNamespace(req.Name) = req.Namespace
       IN  \E err \in {NoErr, NotFoundErr("GetConfigMap"), StoreErr("GetConfigMap")} :
              /\ \/ err = NoErr /\ found /\ UNCHANGED budget
                 \/ IsNotFound(err) /\ ~found /\ UNCHANGED budget
                 \/ ReadFails("GetConfigMap", err)
              /\ PassStep(w, AfterGetConfigMap(pass[w], err), IF IsNotFound(err) THEN NoErr ELSE err, {})
    /\ UNCHANGED <<configMaps, secrets, workloads, call>>

\* r.Get(ctx, req.NamespacedName, &secret)
GetSecret(w) ==
    /\ pass[w].pc = "GetSecret"
    /\ LET req == pass[w].req
           found == /\ req.Name \in SecretIds
                    /\ secrets[req.Name].Exists
                    /\ ObjNamespace(req.Name) = req.Namespace
       IN  \E err \in {NoErr, NotFoundErr("GetSecret"), StoreErr("GetSecret")} :
              /\ \/ err = NoErr /\ found /\ UNCHANGED budget
                 \/ IsNotFound(err) /\ ~found /\ UNCHANGED budget
                 \/ ReadFails("GetSecret", err)
              /\ PassStep(w, AfterGetSecret(pass[w], err), IF IsNotFound(err) THEN NoErr ELSE err, {})
    /\ UNCHANGED <<configMaps, secrets, workloads, call>>

\* r.List of the ConfigMaps in computeCombinedHash
ListConfigMaps(w) ==
    /\ pass[w].pc = "ListConfigMaps"
    /\ \/ /\ ReadFails("ListConfigMaps", StoreErr("ListConfigMaps"))
          /\ PassStep(w, AfterListConfigMaps(pass[w], StoreErr("ListConfigMaps"), <<>>), StoreErr("ListConfigMaps"), {})
       \/ /\ UNCHANGED budget
          /\ \E order \in Orderings(Listed(configMaps, ConfigMapIds, pass[w].req.Namespace, selector)) :
                PassStep(w, AfterListConfigMaps(pass[w], NoErr,
                                [i \in 1..Len(order) |-> ConfigMapItem(order[i])]),
                         NoErr, {})
    /\ UNCHANGED <<configMaps, secrets, workloads, call>>

\* r.List of the Secrets in computeCombinedHash
ListSecrets(w) ==
    /\ pass[w].pc = "ListSecrets"
    /\ \/ /\ ReadFails("ListSecrets", StoreErr("ListSecrets"))
          /\ PassStep(w, AfterListSecrets(pass[w], StoreErr("ListSecrets"), <<>>), StoreErr("ListSecrets"), {})
       \/ /\ UNCHANGED budget
          /\ \E order \in Orderings(Listed(secrets, SecretIds, pass[w].req.Namespace, selector)) :
                PassStep(w, AfterListSecrets(pass[w], NoErr,
                                [i \in 1..Len(order) |-> SecretItem(order[i])]),
                         NoErr, {})
    /\ UNCHANGED <<configMaps, secrets, workloads, call>>

\* r.List of one kind of workload
ListWorkloads(w, kind) ==
    /\ pass[w].pc = ListPc(kind)
    /\ \/ /\ ReadFails(ListPc(kind), StoreErr(ListPc(kind)))
          /\ PassStep(w, AfterListWorkloads(pass[w], kind, StoreErr(ListPc(kind)), <<>>), StoreErr(ListPc(kind)), {})
       \/ /\ UNCHANGED budget
          /\ \E order \in Orderings(Listed(workloads, KindIds(kind), pass[w].req.Namespace, selector)) :
                PassStep(w, AfterListWorkloads(pass[w], kind, NoErr,
                                [i \in 1..Len(order) |-> WorkloadItem(order[i])]),
                         NoErr, {})
    /\ UNCHANGED <<configMaps, secrets, workloads, call>>

ListDeployments(w) == ListWorkloads(w, "Deployment")
ListDaemonSets(w) == ListWorkloads(w, "DaemonSet")
ListStatefulSets(w) == ListWorkloads(w, "StatefulSet")

\* the applier called for the first item of the list: c.Patch fails, or the store
\* applies the merge patch to the object it holds
PatchWorkload(w, kind) ==
    /\ pass[w].pc = PatchPc(kind)
    /\ LET item == Head(pass[w].items)
           current == workloads[item.id]
       IN  \E err \in {NoErr, NotFoundErr(PatchPc(kind)), StoreErr(PatchPc(kind))} :
              /\ \/ err = NoErr /\ current.Exists /\ UNCHANGED budget
                 \/ IsNotFound(err) /\ ~current.Exists /\ UNCHANGED budget
                 \/ ReadFails(PatchPc(kind), err)
              /\ LET res == PatchHash(kind, item.obj, ConfigHashAnnotation, pass[w].hash, err)
                 IN  /\ workloads' = IF res.patch # <<>> /\ err = NoErr
                                     THEN [workloads EXCEPT ![item.id] = ApplyMergePatch(current, res.patch[1])]
                                     ELSE workloads
                     /\ PassStep(w, AfterPatch(pass[w], kind, res), err,
                                 IF res.patch # <<>> THEN {item.id} ELSE {})
    /\ UNCHANGED <<configMaps, secrets, call>>

PatchDeployment(w) == PatchWorkload(w, "Deployment")
PatchDaemonSet(w) == PatchWorkload(w, "DaemonSet")
PatchStatefulSet(w) == PatchWorkload(w, "StatefulSet")

Environment ==
    \/ \E id \in ConfigMapIds : ChangeConfigMap(id)
    \/ \E id \in SecretIds : ChangeSecret(id)
    \/ \E id \in WorkloadIds : EditMarker(id)
    \/ \E id \in WorkloadIds : EditOther(id)
    \/ \E id \in WorkloadIds : CreateWorkload(id)
    \/ \E req \in Requests : Redeliver(req)

Controller ==
    \E w \in Workers :
        \/ StartPass(w)
        \/ GetConfigMap(w)
        \/ GetSecret(w)
        \/ ListConfigMaps(w)
        \/ ListSecrets(w)
        \/ ListDeployments(w)
        \/ PatchDeployment(w)
        \/ ListDaemonSets(w)
        \/ PatchDaemonSet(w)
        \/ ListStatefulSets(w)
        \/ PatchStatefulSet(w)

Next == Environment \/ Controller

Spec == Init /\ [][Next]_vars

-----------------------------------------------------------------------------
(* Properties of the generalized reconciler, checked under Spec *)

Marker(id) == workloads[id].Annotations[ConfigHashAnnotation]
SourcePcs == {"GetConfigMap", "GetSecret", "ListConfigMaps", "ListSecrets"}
Returned(w) == obs.returned = w

\* C8: the first store operation that fails ends the pass.  No pass that is still
\* in flight has seen a store operation fail (so it performs no operation, and
\* writes no later workload, after the failure), and a pass that has returned
\* returns exactly the error of the operation that failed, nil when none
\* failed, and never asks for a requeue.
C8_FirstFailureEndsPass ==
    /\ \A w \in Workers : InFlight(w) => obs.failed[w] = NoErr
    /\ \A w \in Workers : Returned(w) =>
          /\ lastResult.err = obs.failed[w]
          /\ lastResult.Requeue = FALSE

\* a pass was ended by a failing Patch of a Deployment: the other Deployment, the
\* DaemonSet and the StatefulSet have not been written
C8_Witness ==
    \E w \in Workers :
        /\ Returned(w)
        /\ lastResult.err = StoreErr("PatchDeployment")
        /\ obs.patched[w] \in {{"d1"}, {"d2"}}
        /\ \A id \in WorkloadIds : workloads[id].Exists /\ Marker(id) = <<>>

\* C7 as stated: a pass that failed on a read has written nothing.
C7_ReadsBeforeWrites ==
    \A w \in Workers :
        (Returned(w) /\ obs.failed[w] \in {StoreErr(op) : op \in SourcePcs \cup {ListPc(k) : k \in Kinds}})
            => obs.patched[w] = {}

\* C7 as amended: a pass that failed on a Get, on the list of the ConfigMaps, of
\* the Secrets or of the Deployments has written nothing; one that failed on
\* the list of the DaemonSets has written Deployments at most, one that failed on
\* the list of the StatefulSets Deployments and DaemonSets at most.
C7_ReadsBeforeWritesOfKind ==
    \A w \in Workers : Returned(w) =>
        /\ obs.failed[w] \in {StoreErr(op) : op \in SourcePcs \cup {"ListDeployments"}}
              => obs.patched[w] = {}
        /\ obs.failed[w] = StoreErr("ListDaemonSets")
              => obs.patched[w] \subseteq DeploymentIds
        /\ obs.failed[w] = StoreErr("ListStatefulSets")
              => obs.patched[w] \subseteq DeploymentIds \cup DaemonSetIds

\* the list of the StatefulSets failed after Deployments and the DaemonSet were written
C7_Witness ==
    \E w \in Workers :
        /\ Returned(w)
        /\ obs.failed[w] = StoreErr("ListStatefulSets")
        /\ obs.patched[w] = DeploymentIds \cup DaemonSetIds

\* C4: no-signal safety.  A pass during which every matching source is empty after
\* filtering never gets past the reads of the sources and calls c.Patch for no
\* workload; it returns nil unless one of these reads failed.
C4_NoSignalSafety ==
    \A w \in Workers : obs.noSignal[w] =>
        /\ obs.patched[w] = {}
        /\ InFlight(w) => pass[w].pc \in SourcePcs
        /\ Returned(w) => lastResult.err = obs.failed[w]
        /\ Returned(w) /\ obs.failed[w] = NoErr => lastResult = NoResult

\* a pass over a ConfigMap that holds only the excluded key has returned nil, and
\* the marker an earlier pass wrote is still there
C4_Witness ==
    \E w \in Workers :
        /\ Returned(w) /\ obs.noSignal[w] /\ lastResult = NoResult
        /\ configMaps["app"].Exists /\ DOMAIN configMaps["app"].Data = {UpstreamsYaml}
        /\ \E id \in WorkloadIds : Marker(id) \notin {<<>>, OldMarker}

\* C10: at most one pass is in flight, and no workload is patched by a pass after
\* a pass that started later has patched it.
C10_OnePassInFlight ==
    /\ Cardinality({w \in Workers : InFlight(w)}) <= 1
    /\ ~obs.outOfOrder

\* a pass has written a workload while another request waits in the queue
C10_Witness ==
    \E w \in Workers : InFlight(w) /\ obs.patched[w] # {} /\ queue # {}

\* C1 as stated: once a pass has returned nil and while nobody else changes a
\* source or a workload after that return, no step calls c.Patch.
C1_NoWriteAfterSuccess ==
    [][(obs.quietReturn /\ obs'.quietReturn)
          => \A w \in Workers : obs'.patched[w] \subseteq obs.patched[w]]_vars

\* C1 as amended: once a pass has returned nil with no source and no workload
\* changed by anyone else since that pass started, and while nobody else changes
\* one, no step calls c.Patch.
C1_NoWriteWhenQuiet ==
    [][(obs.quiet /\ obs'.quiet)
          => \A w \in Workers : obs'.patched[w] \subseteq obs.patched[w]]_vars

\* a further pass, for a name that no object has, has gone through every workload
\* of a namespace whose fingerprint is not empty without a write
C1_Witness ==
    \E w \in Workers :
        /\ obs.quiet /\ Returned(w) /\ obs.patched[w] = {} /\ lastResult = NoResult
        /\ StoreHash(configMaps, secrets, "n1") # EmptyHash
        /\ budget.changes = 0
        /\ \A id \in WorkloadIds : workloads[id].Exists

\* the step is the Patch of workload id called by worker w
IsPatch(w, id) ==
    /\ pass[w].pc \in {PatchPc(k) : k \in Kinds}
    /\ Head(pass[w].items).id = id
    /\ id \in obs'.patched[w]

C6_PatchOnlyMarker ==
    [][\A w \in Workers : \A id \in WorkloadIds :
          (IsPatch(w, id) /\ obs'.failed[w] = NoErr) =>
              workloads' = [workloads EXCEPT
                              ![id].Annotations[ConfigHashAnnotation] = pass[w].hash]]_vars

\* a workload was scaled and annotated by another writer between the list and the
\* Patch, and carries the marker and that edit
C6_Witness ==
    \E w \in Workers : \E id \in obs.stale[w] :
        /\ obs.failed[w] = NoErr
        /\ Marker(id) # <<>>
        /\ workloads[id].Annotations[RestartedAt] = NowValue
        /\ workloads[id].Replicas = 2

-----------------------------------------------------------------------------
(* Convergence, checked under FairSpec *)

\* the controller runs a worker whenever the queue holds a request, and a pass in
\* flight goes on to its next store operation
FairSpec == Spec /\ WF_vars(Controller)

MatchingWorkloads ==
    { id \in WorkloadIds : workloads[id].Exists /\ Matches(selector, ObjLabels(id)) }

\* C2 as stated: once the sources have stopped changing and the store has stopped
\* failing, from some point on every matching workload carries the aggregate
\* fingerprint of the sources when that fingerprint is not empty.
C2_Converges ==
    <>[](StoreHash(configMaps, secrets, "n1") # EmptyHash
            => \A id \in MatchingWorkloads : Marker(id) = StoreHash(configMaps, secrets, "n1"))

\* C2 as amended: ... from some point on every matching workload that no other writer
\* has created or changed since the last pass started carries that fingerprint.
C2_ConvergesUntouched ==
    <>[](StoreHash(configMaps, secrets, "n1") # EmptyHash
            => \A id \in MatchingWorkloads \ obs.touched :
                  Marker(id) = StoreHash(configMaps, secrets, "n1"))

\* a pass failed after it had patched a part of the workloads, and in the end, with
\* nothing left to change or to fail, every workload carries the fingerprint
C2_Witness ==
    /\ budget = [changes |-> 0, failures |-> 0]
    /\ queue = {} /\ \A w \in Workers : ~InFlight(w)
    /\ obs.touched = {}
    /\ StoreHash(configMaps, secrets, "n1") # EmptyHash
    /\ MatchingWorkloads = WorkloadIds
    /\ \A id \in WorkloadIds : Marker(id) = StoreHash(configMaps, secrets, "n1")

-----------------------------------------------------------------------------
(* The patch appliers on their own: a caller reads a workload and applies a target
   to it MaxCalls times, while another writer edits the workload *)

MaxCalls == 2

ApplyTargets ==
    { StoreHash([c \in ConfigMapIds |-> cm], [x \in SecretIds |-> NoSecret], "n1") :
        cm \in {c \in ConfigMapContents : c.Exists /\ DOMAIN c.Data # {UpstreamsYaml}} }

ApplyInit ==
    /\ configMaps = [c \in ConfigMapIds |-> NoConfigMap]
    /\ secrets = [x \in SecretIds |-> NoSecret]
    /\ workloads \in [WorkloadIds ->
                        { [NoWorkload EXCEPT !.Exists = TRUE, !.Annotations[ConfigHashAnnotation] = m] :
                            m \in {<<>>} \cup ApplyTargets }]
    /\ queue = {}
    /\ dirty = {}
    /\ pass = [w \in Workers |-> IdlePass]
    /\ lastResult = NoResult
    /\ budget = [changes |-> MaxChanges, failures |-> MaxFailures]
    /\ obs = InitObs
    /\ call = [phase |-> "idle", id |-> "", target |-> EmptyHash, obj |-> NoWorkload, results |-> <<>>]

\* the caller gets the workload it will apply the target to
CallRead(id, target) ==
    /\ call.phase = "idle"
    /\ call' = [call EXCEPT !.phase = "ready", !.id = id, !.target = target, !.obj = workloads[id]]
    /\ UNCHANGED <<configMaps, secrets, workloads, queue, dirty, pass, lastResult, budget, obs>>

\* between two calls the caller gets the workload again
CallReread ==
    /\ call.phase = "ready"
    /\ call.results # <<>>
    /\ call.obj # workloads[call.id]
    /\ call' = [call EXCEPT !.obj = workloads[call.id]]
    /\ UNCHANGED <<configMaps, secrets, workloads, queue, dirty, pass, lastResult, budget, obs>>

\* one call of the applier of the workload's kind; c.Patch, when it is called, returns
\* patchErr, and on success leaves in the object what the store holds
CallApply(patchErr) ==
    /\ call.phase = "ready"
    /\ Len(call.results) < MaxCalls
    /\ LET id == call.id
           res == PatchHash(KindOf(id), call.obj, ConfigHashAnnotation, call.target, patchErr)
           after == IF res.patch # <<>> /\ res.err = NoErr
                    THEN ApplyMergePatch(workloads[id], res.patch[1])
                    ELSE workloads[id]
       IN  /\ workloads' = [workloads EXCEPT ![id] = after]
           /\ call' = [call EXCEPT
                         !.obj = IF res.patch # <<>> /\ res.err = NoErr THEN after ELSE res.obj,
                         !.results = Append(@,
                             [ changed |-> res.changed, err |-> res.err,
                               snap |-> call.obj.Annotations[ConfigHashAnnotation],
                               wrote |-> res.patch # <<>>,
                               before |-> workloads[id], after |-> after ])]
    /\ UNCHANGED <<configMaps, secrets, queue, dirty, pass, lastResult, budget, obs>>

ApplyNext ==
    \/ \E id \in WorkloadIds : \E target \in ApplyTargets : CallRead(id, target)
    \/ CallReread
    \/ \E patchErr \in {NoErr, StoreErr("Patch")} : CallApply(patchErr)
    \/ \E id \in WorkloadIds : EditMarker(id)
    \/ \E id \in WorkloadIds : EditOther(id)

ApplySpec == ApplyInit /\ [][ApplyNext]_vars

MarkerOf(obj) == obj.Annotations[ConfigHashAnnotation]

\* C3: a call on a workload whose marker equals the target returns (false, nil) and
\* calls c.Patch not at all; two calls with the same target, the first on a marker
\* that differs and accepted by the store, the second with the marker the first
\* left in the store, return true then false, and only the first calls c.Patch.
C3_ApplyTwiceOneWrite ==
    call.phase = "ready" =>
        LET r == call.results
        IN  /\ \A i \in 1..Len(r) : r[i].snap = call.target =>
                  /\ ~r[i].changed /\ r[i].err = NoErr
                  /\ ~r[i].wrote /\ r[i].after = r[i].before
            /\ (Len(r) >= 2 /\ r[1].snap # call.target /\ r[1].err = NoErr
                    /\ MarkerOf(r[2].before) = call.target) =>
                  /\ r[1].changed /\ r[1].wrote
                  /\ ~r[2].changed /\ ~r[2].wrote /\ r[2].err = NoErr

\* the target was applied twice to a StatefulSet that another writer scaled in
\* between: true, then false on the object read again
C3_Witness ==
    /\ call.phase = "ready" /\ call.id \in StatefulSetIds /\ Len(call.results) = 2
    /\ call.results[1].changed /\ call.results[1].err = NoErr
    /\ ~call.results[2].changed
    /\ call.results[2].before # call.results[1].after
    /\ MarkerOf(workloads[call.id]) = call.target

\* C9 as stated: the flag is true exactly when the call changed the marker the
\* store holds.
C9_ChangedIffStoreChanged ==
    call.phase = "ready" =>
        \A i \in 1..Len(call.results) :
            call.results[i].changed
                <=> MarkerOf(call.results[i].after) # MarkerOf(call.results[i].before)

\* C9 as amended: the flag is true exactly when the marker of the object handed in
\* differs from the target, which is when c.Patch is called.  When the store accepts,
\* it then holds the target as the marker and nothing else of the workload is
\* changed; when it rejects, the flag is true all the same, the error is the
\* store's and the store is left as it was.
C9_ChangedIffPatchCalled ==
    call.phase = "ready" =>
        \A i \in 1..Len(call.results) :
            LET r == call.results[i]
            IN  /\ r.changed <=> r.snap # call.target
                /\ r.changed <=> r.wrote
                /\ r.err # NoErr => r.changed /\ r.err = StoreErr("Patch") /\ r.after = r.before
                /\ r.changed /\ r.err = NoErr =>
                      r.after = [r.before EXCEPT !.Annotations[ConfigHashAnnotation] = call.target]

\* the store rejected the write of a DaemonSet: (true, err), the marker as before
C9_Witness ==
    /\ call.phase = "ready" /\ call.id \in DaemonSetIds /\ Len(call.results) = 1
    /\ call.results[1].changed /\ call.results[1].err = StoreErr("Patch")
    /\ MarkerOf(workloads[call.id]) # call.target

-----------------------------------------------------------------------------
(* The source fingerprints on their own: hashConfigMapContent and hashSecretContent
   applied to a source and to what at most MaxEdits edits make of it *)

MaxEdits == 2

\* sort.Strings(keys) on the slice the range loops filled
RECURSIVE InsertString(_, _)
InsertString(k, sorted) ==
    Only({ IF rest = <<>> THEN <<k>>
           ELSE IF StrLess(k, Head(rest)) THEN <<k>> \o rest
           ELSE <<Head(rest)>> \o InsertString(k, Tail(rest)) :
           rest \in {sorted} })

\* the slice left as the loops filled it
SortStringListNone(list) == list

RECURSIVE SortStringList(_)
SortStringList(list) ==
    Only({ IF ks = <<>> THEN <<>>
           ELSE Only({ InsertString(k, SortStringList(Tail(ks))) : k \in {Head(ks)} }) :
           ks \in {list} })

\* one range loop over an entry map, in the order the runtime iterates it: the
\* keys that are not ignored, tagged, in that order
RECURSIVE TaggedKeys(_, _, _)
TaggedKeys(order, tag, ignoredKeys) ==
    Only({ IF ks = <<>> THEN <<>>
           ELSE (IF shouldIgnoreKey(Head(ks), ignoredKeys) THEN <<>>
                 ELSE << <<tag, ChColon>> \o Head(ks) >>)
                   \o TaggedKeys(Tail(ks), tag, ignoredKeys) :
           ks \in {order} })

\* hashConfigMapContent when range cfg.Data yields dataOrder and range
\* cfg.BinaryData yields binaryOrder
hashConfigMapContentIter(cfg, ignoredKeys, dataOrder, binaryOrder) ==
    IF Cardinality(DOMAIN cfg.Data) = 0 /\ Cardinality(DOMAIN cfg.BinaryData) = 0
    THEN EmptyHash
    ELSE Only({ IF Len(keys) = 0 THEN EmptyHash
                ELSE HexDigest(ConfigMapHashInput(cfg, SortStringList(keys))) :
                keys \in { TaggedKeys(dataOrder, ChS, ignoredKeys)
                             \o TaggedKeys(binaryOrder, ChB, ignoredKeys) } })

\* hashSecretContent when range secret.Data yields dataOrder
hashSecretContentIter(secret, ignoredKeys, dataOrder) ==
    IF Cardinality(DOMAIN secret.Data) = 0 THEN EmptyHash
    ELSE Only({ IF Len(keys) = 0 THEN EmptyHash
                ELSE HexDigest(SecretHashInput(secret, SortStringList(keys))) :
                keys \in { TaggedKeys(dataOrder, ChD, ignoredKeys) } })

\* keys and values of the entry maps: the empty key, "a", "b", the key main
\* ignores by default; "1", "2" and a value that holds NUL bytes
KeyEmpty == <<>>
KeyA == <<97>>
KeyB == <<98>>
EntryKeys == {KeyEmpty, KeyA, KeyB, UpstreamsYaml}
Val1 == <<49>>
Val2 == <<50>>
ValNul(kind) == <<49, NUL, IF kind = "ConfigMap" THEN ChS ELSE ChD, 98, NUL, 50>>
EntryValues(kind) == {Val1, Val2, ValNul(kind)}
SourceKinds == {"ConfigMap", "Secret"}

EmptySource == [Data |-> <<>>, BinaryData |-> <<>>]
MapSet(m, k, v) == [x \in DOMAIN m \cup {k} |-> IF x = k THEN v ELSE m[x]]
MapRemove(m, k) == [x \in DOMAIN m \ {k} |-> m[x]]

\* the sources the edits start from
InitialSources ==
    { EmptySource,
      [EmptySource EXCEPT !.Data = MapSet(<<>>, KeyA, Val1)],
      [EmptySource EXCEPT !.Data = MapSet(MapSet(<<>>, KeyA, Val1), KeyB, Val2)],
      [EmptySource EXCEPT !.Data = MapSet(<<>>, KeyEmpty, Val1)],
      [EmptySource EXCEPT !.Data = MapSet(MapSet(<<>>, KeyA, Val1), UpstreamsYaml, Val1)] }

\* the fingerprint of a source of a kind, the runtime iterating its maps in some order
SourceHashes(kind, src, ignoredKeys) ==
    IF kind = "ConfigMap"
    THEN { hashConfigMapContentIter(src, ignoredKeys, dataOrder, binaryOrder) :
             dataOrder \in Orderings(DOMAIN src.Data),
             binaryOrder \in Orderings(DOMAIN src.BinaryData) }
    ELSE { hashSecretContentIter(src, ignoredKeys, dataOrder) :
             dataOrder \in Orderings(DOMAIN src.Data) }

\* the aggregate over the one source, named "app"
SingleAggregate(kind, src, ignoredKeys) ==
    IF kind = "ConfigMap"
    THEN hashConfigSources(<<[Name |-> ObjName("app"), Data |-> src.Data, BinaryData |-> src.BinaryData]>>,
                           <<>>, ignoredKeys, ignoredKeys)
    ELSE hashConfigSources(<<>>, <<[Name |-> ObjName("app"), Data |-> src.Data]>>,
                           ignoredKeys, ignoredKeys)

Idle ==
    /\ configMaps = [c \in ConfigMapIds |-> NoConfigMap]
    /\ secrets = [x \in SecretIds |-> NoSecret]
    /\ workloads = [id \in WorkloadIds |-> NoWorkload]
    /\ queue = {}
    /\ dirty = {}
    /\ pass = [w \in Workers |-> IdlePass]
    /\ lastResult = NoResult
    /\ budget = [changes |-> MaxChanges, failures |-> MaxFailures]
    /\ obs = InitObs

SourceInit ==
    /\ Idle
    /\ \E kind \in SourceKinds : \E src \in InitialSources :
       \E ignoredKeys \in {{}, IgnoredConfigMapKeys} :
       \E h \in SourceHashes(kind, src, ignoredKeys) :
          call = [ phase |-> "source", kind |-> kind, ignoredKeys |-> ignoredKeys,
                   first |-> src, firstHash |-> h,
                   prev |-> src, prevHash |-> h,
                   src |-> src, hash |-> h,
                   aggregate |-> SingleAggregate(kind, src, ignoredKeys),
                   firstAggregate |-> SingleAggregate(kind, src, ignoredKeys),
                   edits |-> <<>> ]

\* the source after an edit is fingerprinted again
Edited(src, edit) ==
    /\ Len(call.edits) < MaxEdits
    /\ src # call.src
    /\ \E h \in SourceHashes(call.kind, src, call.ignoredKeys) :
          call' = [call EXCEPT !.prev = call.src, !.prevHash = call.hash,
                               !.src = src, !.hash = h,
                               !.aggregate = SingleAggregate(call.kind, src, call.ignoredKeys),
                               !.edits = Append(@, edit)]
    /\ UNCHANGED <<configMaps, secrets, workloads, queue, dirty, pass, lastResult, budget, obs>>

\* an entry is added to Data, or its value replaced
SetData(k, v) ==
    /\ call.phase = "source"
    /\ Edited([call.src EXCEPT !.Data = MapSet(@, k, v)], [op |-> "set", key |-> k])

\* an entry is added to BinaryData, or its value replaced
SetBinaryData(k, v) ==
    /\ call.phase = "source" /\ call.kind = "ConfigMap"
    /\ Edited([call.src EXCEPT !.BinaryData = MapSet(@, k, v)], [op |-> "set", key |-> k])

\* an entry is removed
RemoveData(k) ==
    /\ call.phase = "source" /\ k \in DOMAIN call.src.Data
    /\ Edited([call.src EXCEPT !.Data = MapRemove(@, k)], [op |-> "remove", key |-> k])

RemoveBinaryData(k) ==
    /\ call.phase = "source" /\ k \in DOMAIN call.src.BinaryData
    /\ Edited([call.src EXCEPT !.BinaryData = MapRemove(@, k)], [op |-> "remove", key |-> k])

\* one byte of the value of an entry is changed
ChangeByte(k, i, c) ==
    /\ call.phase = "source" /\ k \in DOMAIN call.src.Data
    /\ i \in 1..Len(call.src.Data[k])
    /\ Edited([call.src EXCEPT !.Data[k][i] = c], [op |-> "byte", key |-> k])

\* a text entry becomes a binary entry under the same key
MakeBinary(k) ==
    /\ call.phase = "source" /\ call.kind = "ConfigMap"
    /\ k \in DOMAIN call.src.Data /\ k \notin DOMAIN call.src.BinaryData
    /\ Edited([call.src EXCEPT !.Data = MapRemove(@, k),
                               !.BinaryData = MapSet(@, k, call.src.Data[k])],
              [op |-> "binary", key |-> k])

SourceNext ==
    \/ \E k \in EntryKeys : \E v \in EntryValues(call.kind) : SetData(k, v)
    \/ \E k \in EntryKeys : \E v \in EntryValues(call.kind) : SetBinaryData(k, v)
    \/ \E k \in EntryKeys : RemoveData(k)
    \/ \E k \in EntryKeys : RemoveBinaryData(k)
    \/ \E k \in EntryKeys : \E i \in 1..6 : \E c \in {49, 50} : ChangeByte(k, i, c)
    \/ \E k \in EntryKeys : MakeBinary(k)

SourceSpec == SourceInit /\ [][SourceNext]_vars

\* the content left of a source once the entries with an excluded key are dropped
Filtered(src, excluded) ==
    [ Data |-> [k \in DOMAIN src.Data \ excluded |-> src.Data[k]],
      BinaryData |-> [k \in DOMAIN src.BinaryData \ excluded |-> src.BinaryData[k]] ]

SetBasedHash(kind, src, ignoredKeys) ==
    IF kind = "ConfigMap" THEN hashConfigMapContent(src, ignoredKeys)
    ELSE hashSecretContent(src, ignoredKeys)

\* C12: whatever order the runtime iterates the entry maps in, a source gets one
\* fingerprint, and two sources of a kind with the same non-excluded keys and
\* values get the same one.
C12_Deterministic ==
    call.phase = "source" =>
        /\ SourceHashes(call.kind, call.src, call.ignoredKeys)
              = {SetBasedHash(call.kind, call.src, call.ignoredKeys)}
        /\ call.hash = SetBasedHash(call.kind, call.src, call.ignoredKeys)
        /\ Filtered(call.src, call.ignoredKeys) = Filtered(call.first, call.ignoredKeys)
              => call.hash = call.firstHash

\* a ConfigMap with two text entries and a binary entry, which the runtime can
\* iterate in several orders
C12_Witness ==
    /\ call.phase = "source" /\ call.kind = "ConfigMap"
    /\ Cardinality(DOMAIN call.src.Data \ call.ignoredKeys) = 2
    /\ Cardinality(DOMAIN call.src.BinaryData \ call.ignoredKeys) = 1
    /\ call.hash # EmptyHash

EditsOnly(keys) == \A i \in 1..Len(call.edits) : call.edits[i].key \in keys

\* C13: edits of entries whose key is in the exclusion set change neither the
\* fingerprint of the source nor the aggregate; with an empty exclusion set the key
\* main excludes by default counts like any other: adding, removing or replacing
\* its entry changes the fingerprint.
C13_ExclusionInvariance ==
    call.phase = "source" =>
        /\ EditsOnly(call.ignoredKeys) =>
              /\ call.hash = call.firstHash
              /\ call.aggregate = call.firstAggregate
        /\ (call.ignoredKeys = {} /\ call.edits # <<>>
                /\ call.edits[Len(call.edits)].key = UpstreamsYaml
                /\ call.edits[Len(call.edits)].op \in {"set", "remove"})
              => call.hash # call.prevHash

\* an excluded entry was added to a source and then replaced: the fingerprint is
\* the one of the source without it
C13_Witness ==
    /\ call.phase = "source" /\ call.ignoredKeys # {}
    /\ Len(call.edits) = 2 /\ EditsOnly(call.ignoredKeys)
    /\ UpstreamsYaml \in DOMAIN call.src.Data /\ UpstreamsYaml \notin DOMAIN call.first.Data
    /\ call.hash = call.firstHash /\ call.hash # EmptyHash

\* C14: two sources of a kind whose filtered contents differ get different
\* fingerprints (the digest being collision-free).
C14_ContentDecidesFingerprint ==
    call.phase = "source" =>
        (Filtered(call.src, call.ignoredKeys) # Filtered(call.first, call.ignoredKeys)
            => call.hash # call.firstHash)

\* C14 for the sources whose keys are not empty: the values that hold NUL bytes
C14_ContentDecidesFingerprintOfNamedKeys ==
    (call.phase = "source"
        /\ KeyEmpty \notin DOMAIN call.src.Data \cup DOMAIN call.src.BinaryData
        /\ KeyEmpty \notin DOMAIN call.first.Data \cup DOMAIN call.first.BinaryData) =>
        (Filtered(call.src, call.ignoredKeys) # Filtered(call.first, call.ignoredKeys)
            => call.hash # call.firstHash)

\* C15: changing one byte of the value of an entry that is not excluded changes the
\* fingerprint of the source, whatever the key of the entry.
C15_ByteChangesFingerprint ==
    (call.phase = "source" /\ call.edits # <<>>
        /\ call.edits[Len(call.edits)].op = "byte"
        /\ call.edits[Len(call.edits)].key \notin call.ignoredKeys)
        => call.hash # call.prevHash


-----------------------------------------------------------------------------
(* hashConfigSources called on the lists of a namespace, and called again on the
   lists in another order, with a source of no hashed entries more or less.
   AggregateSpec draws the lists and keeps the first call for comparison. *)

MaxSources == 2

NameX == <<120>>
SourceNames == {ObjName("app"), ObjName("tls"), NameX}

\* contents of a listed ConfigMap: no entries, a hashed entry, an ignored entry only
ListedConfigMapContents ==
    { [Data |-> <<>>, BinaryData |-> <<>>],
      [Data |-> (AppConf :> ValX1), BinaryData |-> <<>>],
      [Data |-> (UpstreamsYaml :> ValX1), BinaryData |-> <<>>] }
ListedSecretContents == { [Data |-> <<>>], [Data |-> (TlsKey :> ValX1)] }

ListedConfigMaps ==
    { [Name |-> n, Data |-> c.Data, BinaryData |-> c.BinaryData] :
        n \in SourceNames, c \in ListedConfigMapContents }
ListedSecrets == { [Name |-> n, Data |-> c.Data] : n \in SourceNames, c \in ListedSecretContents }

\* names are unique within a kind
UniqueNames(list) == \A i, j \in 1..Len(list) : list[i].Name = list[j].Name => i = j
\* what a first list call can return: the objects in the order of their names
ByName(list) == \A i \in 1..(Len(list) - 1) : StrLess(list[i].Name, list[i + 1].Name)
Lists(items) ==
    { l \in UNION { [1..n -> items] : n \in 0..MaxSources } : ByName(l) }

RemoveAt(list, i) == SubSeq(list, 1, i - 1) \o SubSeq(list, i + 1, Len(list))
SwapAt(list, i) ==
    [j \in 1..Len(list) |-> IF j = i THEN list[i + 1] ELSE IF j = i + 1 THEN list[i] ELSE list[j]]

\* Reconcile from computeCombinedHash's second list to its test of the hash
AggregateOutcome(cms, secs) ==
    Only({ [ cms |-> cms, secs |-> secs,
             hash |-> hashConfigSources(cms, secs, IgnoredConfigMapKeys, IgnoredSecretKeys),
             returned |-> out.done, err |-> out.err,
             pc |-> IF out.done THEN "idle" ELSE out.p.pc ] :
           out \in { AfterListSecrets([IdlePass EXCEPT !.pc = "ListSecrets", !.cms = cms], NoErr, secs) } })

AggregateInit ==
    /\ Idle
    /\ \E cms \in Lists(ListedConfigMaps) : \E secs \in Lists(ListedSecrets) :
       \E o \in {AggregateOutcome(cms, secs)} :
          call = [phase |-> "aggregate", first |-> o, now |-> o]

Relisted(cms, secs) ==
    /\ call.phase = "aggregate"
    /\ call' = [call EXCEPT !.now = AggregateOutcome(cms, secs)]
    /\ UNCHANGED <<configMaps, secrets, workloads, queue, dirty, pass, lastResult, budget, obs>>

\* the list call returns the same objects in another order
SwapConfigMaps(i) ==
    /\ i < Len(call.now.cms)
    /\ Relisted(SwapAt(call.now.cms, i), call.now.secs)
SwapSecrets(i) ==
    /\ i < Len(call.now.secs)
    /\ Relisted(call.now.cms, SwapAt(call.now.secs, i))

\* a source without hashed entries appears in the namespace, or is deleted
Unhashed(src, ignoredKeys) == \A k \in DOMAIN src.Data : k \in ignoredKeys
AddConfigMap(item) ==
    /\ Len(call.now.cms) < MaxSources
    /\ Unhashed(item, IgnoredConfigMapKeys)
    /\ UniqueNames(Append(call.now.cms, item))
    /\ Relisted(Append(call.now.cms, item), call.now.secs)
AddSecret(item) ==
    /\ Len(call.now.secs) < MaxSources
    /\ Unhashed(item, IgnoredSecretKeys)
    /\ UniqueNames(Append(call.now.secs, item))
    /\ Relisted(call.now.cms, Append(call.now.secs, item))
RemoveConfigMap(i) ==
    /\ i <= Len(call.now.cms)
    /\ Unhashed(call.now.cms[i], IgnoredConfigMapKeys)
    /\ Relisted(RemoveAt(call.now.cms, i), call.now.secs)
RemoveSecret(i) ==
    /\ i <= Len(call.now.secs)
    /\ Unhashed(call.now.secs[i], IgnoredSecretKeys)
    /\ Relisted(call.now.cms, RemoveAt(call.now.secs, i))

AggregateNext ==
    \/ \E i \in 1..MaxSources : SwapConfigMaps(i)
    \/ \E i \in 1..MaxSources : SwapSecrets(i)
    \/ \E item \in ListedConfigMaps : AddConfigMap(item)
    \/ \E item \in ListedSecrets : AddSecret(item)
    \/ \E i \in 1..MaxSources : RemoveConfigMap(i)
    \/ \E i \in 1..MaxSources : RemoveSecret(i)

AggregateSpec == AggregateInit /\ [][AggregateNext]_vars

Range(list) == { list[i] : i \in 1..Len(list) }

\* C11: for any permutation of the listed ConfigMaps and any permutation of the
\* listed Secrets (names unique within a kind), hashConfigSources returns the
\* aggregate it returned for the lists in their first order.
C11_OrderIndependent ==
    (   /\ call.phase = "aggregate"
        /\ Len(call.now.cms) = Len(call.first.cms)
        /\ Len(call.now.secs) = Len(call.first.secs)
        /\ Range(call.now.cms) = Range(call.first.cms)
        /\ Range(call.now.secs) = Range(call.first.secs) )
    => call.now.hash = call.first.hash

\* two hashed ConfigMaps listed in the other order than at first
C11_Witness ==
    /\ call.phase = "aggregate"
    /\ Len(call.first.cms) = 2
    /\ \A i \in 1..2 : ~Unhashed(call.first.cms[i], IgnoredConfigMapKeys)
    /\ call.now.cms = SwapAt(call.first.cms, 1)
    /\ call.now.hash = call.first.hash
    /\ call.now.hash # EmptyHash

Hashed(list, ignoredKeys) == { x \in Range(list) : ~Unhashed(x, ignoredKeys) }

\* C16: a ConfigMap whose entries are all ignored gets the empty fingerprint, as a
\* source without entries does; such sources are left out of the aggregation, so
\* the aggregate is the one of the other sources whether they are listed or not;
\* and when no listed source has a hashed entry the aggregate is empty and the
\* pass returns nil before any list of workloads or patch call.
C16_UnhashedSourceLeftOut ==
    call.phase = "aggregate" =>
        /\ \A c \in Range(call.now.cms) :
              Unhashed(c, IgnoredConfigMapKeys)
                <=> hashConfigMapContent(c, IgnoredConfigMapKeys) = EmptyHash
        /\ \A x \in Range(call.now.secs) :
              Unhashed(x, IgnoredSecretKeys)
                <=> hashSecretContent(x, IgnoredSecretKeys) = EmptyHash
        /\ (   /\ Hashed(call.now.cms, IgnoredConfigMapKeys) = Hashed(call.first.cms, IgnoredConfigMapKeys)
               /\ Hashed(call.now.secs, IgnoredSecretKeys) = Hashed(call.first.secs, IgnoredSecretKeys) )
           => call.now.hash = call.first.hash
        /\ (   /\ Hashed(call.now.cms, IgnoredConfigMapKeys) = {}
               /\ Hashed(call.now.secs, IgnoredSecretKeys) = {} )
           => /\ call.now.hash = EmptyHash
              /\ call.now.returned
              /\ call.now.err = NoErr
              /\ call.now.pc = "idle"
        /\ call.now.hash = EmptyHash <=> call.now.returned

\* a ConfigMap with only the ignored key was added to an empty namespace
C16_Witness ==
    /\ call.phase = "aggregate"
    /\ call.first.cms = <<>> /\ call.first.secs = <<>>
    /\ Len(call.now.cms) = 1 /\ call.now.secs = <<>>
    /\ DOMAIN call.now.cms[1].Data = {UpstreamsYaml}
    /\ call.now.hash = EmptyHash
    /\ call.now.returned

\* the aggregate with the Secrets' entries appended before the ConfigMaps' ones
SecretsFirst(cms, secs) ==
    HexDigest(EntriesHashInput(SortEntries(
        SecretEntries(secs, IgnoredSecretKeys) \o ConfigMapEntries(cms, IgnoredConfigMapKeys))))

\* C17: a ConfigMap and a Secret of the same name, both with hashed entries,
\* contribute under different identities ("configmap/name", "secret/name"): the
\* aggregate of the two differs from the fingerprint of each and is the same
\* whichever of the two is appended first.
C17_KindsDoNotCollide ==
    call.phase = "aggregate" =>
        \A c \in Hashed(call.now.cms, IgnoredConfigMapKeys) :
        \A x \in Hashed(call.now.secs, IgnoredSecretKeys) :
            c.Name = x.Name =>
                \E ce \in {ConfigMapEntries(<<c>>, IgnoredConfigMapKeys)} :
                \E xe \in {SecretEntries(<<x>>, IgnoredSecretKeys)} :
                \E both \in {hashConfigSources(<<c>>, <<x>>, IgnoredConfigMapKeys, IgnoredSecretKeys)} :
                    /\ Len(ce) = 1 /\ Len(xe) = 1
                    /\ ce[1].key # xe[1].key
                    /\ both # ce[1].hash
                    /\ both # xe[1].hash
                    /\ both # hashConfigSources(<<c>>, <<>>, IgnoredConfigMapKeys, IgnoredSecretKeys)
                    /\ both # hashConfigSources(<<>>, <<x>>, IgnoredConfigMapKeys, IgnoredSecretKeys)
                    /\ both = SecretsFirst(<<c>>, <<x>>)

\* the namespace lists a hashed ConfigMap and a hashed Secret, both named "app"
C17_Witness ==
    /\ call.phase = "aggregate"
    /\ \E c \in Hashed(call.now.cms, IgnoredConfigMapKeys) :
       \E x \in Hashed(call.now.secs, IgnoredSecretKeys) :
          c.Name = ObjName("app") /\ x.Name = ObjName("app")
    /\ call.now.hash # EmptyHash


-----------------------------------------------------------------------------
(* The label predicates of the two variants: the one SetupWithManager hands to
   the watch and the one the pass hands to its List calls. SelectSpec walks an
   object through label sets and evaluates both on each. *)

\* the constants of the simple variant
\* a label value that an absent label has too
synapseLabelValueEmpty == ""

synapseLabelKey == "app.kubernetes.io/name"
synapseLabelValue == "synapse"
configHashAnnotKey == "synapse.gen0sec.com/config-hash"

TierKey == "tier"
LabelKeys == {synapseLabelKey, TierKey}
LabelValues == {"", "synapse", "other"}

\* r.LabelSelector: unset, or what parseLabelSelector returned
Everything == {}
NilSelector == [nil |-> TRUE, requirements |-> {}]
Parsed(requirements) == [nil |-> FALSE, requirements |-> requirements]
LabelSelectors ==
    { NilSelector, Parsed(Everything), Parsed({<<synapseLabelKey, synapseLabelValue>>}),
      Parsed({<<synapseLabelKey, synapseLabelValue>>, <<TierKey, "other">>}) }

\* r.selector()
selectorOf(labelSelector) ==
    IF labelSelector.nil THEN Everything ELSE labelSelector.requirements

\* the predicate function of the generalized SetupWithManager, on a non-nil object
matchesSelectorFunc(labelSelector, labels) == Matches(selectorOf(labelSelector), labels)
\* client.MatchingLabelsSelector{Selector: r.selector()} of the List calls
MatchingLabelsSelector(labelSelector, labels) == Matches(selectorOf(labelSelector), labels)

\* labels[key] of a Go map: the empty string for an absent key
LabelOf(labels, key) == IF key \in DOMAIN labels THEN labels[key] ELSE ""
\* the simple Reconcile without its test of the labels
BelongsToAnything(labels) == TRUE

\* isSynapseObject of the simple variant, on a non-nil object
isSynapseObject(labels) == LabelOf(labels, synapseLabelKey) = synapseLabelValue
\* the test of cfg.Labels in the simple Reconcile
BelongsToSynapse(labels) == ~(LabelOf(labels, synapseLabelKey) # synapseLabelValue)
\* client.MatchingLabels{...}: every pair of the set is a label of the object
MatchingLabels(set, labels) == \A k \in DOMAIN set : k \in DOMAIN labels /\ labels[k] = set[k]
SimpleListOption(labels) == MatchingLabels((synapseLabelKey :> synapseLabelValue), labels)

Variants == {"generalized", "simple"}

Selected(variant, labelSelector, kind, labels) ==
    [ phase |-> "select", variant |-> variant, labelSelector |-> labelSelector,
      kind |-> kind, labels |-> labels,
      admitted |-> IF variant = "simple" THEN isSynapseObject(labels)
                   ELSE matchesSelectorFunc(labelSelector, labels),
      belongs |-> IF variant = "simple" THEN BelongsToSynapse(labels)
                  ELSE MatchingLabelsSelector(labelSelector, labels),
      listed |-> IF variant = "simple" THEN SimpleListOption(labels)
                 ELSE MatchingLabelsSelector(labelSelector, labels) ]

SelectInit ==
    /\ Idle
    /\ \/ \E ls \in LabelSelectors : \E kind \in SourceKinds :
             call = Selected("generalized", ls, kind, <<>>)
       \/ call = Selected("simple", NilSelector, "ConfigMap", <<>>)

Relabelled(labels) ==
    /\ call.phase = "select"
    /\ labels # call.labels
    /\ call' = Selected(call.variant, call.labelSelector, call.kind, labels)
    /\ UNCHANGED <<configMaps, secrets, workloads, queue, dirty, pass, lastResult, budget, obs>>

SetLabel(k, v) == Relabelled(MapSet(call.labels, k, v))
RemoveLabel(k) ==
    /\ k \in DOMAIN call.labels
    /\ Relabelled(MapRemove(call.labels, k))

SelectNext ==
    \E k \in LabelKeys :
        \/ \E v \in LabelValues : SetLabel(k, v)
        \/ RemoveLabel(k)

SelectSpec == SelectInit /\ [][SelectNext]_vars

\* C18: for every label set, the watch predicate admits an object exactly when
\* the pass's List option would return it (generalized: r.selector() on both
\* sides, everything when unset; simple: the label app.kubernetes.io/name=synapse,
\* in isSynapseObject, in the test of the ConfigMap's labels and in MatchingLabels).
C18_WatchFilterIsListFilter ==
    call.phase = "select" =>
        /\ call.admitted <=> call.listed
        /\ call.admitted <=> call.belongs
        /\ (call.variant = "generalized" /\ call.labelSelector \in {NilSelector, Parsed(Everything)})
              => call.admitted
        /\ call.variant = "simple"
              => (call.admitted <=> /\ synapseLabelKey \in DOMAIN call.labels
                                    /\ call.labels[synapseLabelKey] = "synapse")

\* the simple variant on an object that had the label and has lost it
C18_Witness ==
    /\ call.phase = "select"
    /\ call.variant = "simple"
    /\ synapseLabelKey \notin DOMAIN call.labels
    /\ TierKey \in DOMAIN call.labels
    /\ ~call.admitted /\ ~call.listed


-----------------------------------------------------------------------------
(* The two variants side by side.  RefineSpec holds a store of ConfigMaps and
   Deployments only, with at most one kind of call failing; a trigger runs a whole
   pass of the simple reconciler and a whole pass of the generalized reconciler
   (configured with the simple variant's constants and no ignored keys) on the
   same store, and each pass once more on the store it left; the store then moves
   on to what one of the two left. *)

\* hashConfigMapContent of the simple variant
simpleHashConfigMapContent(cfg) ==
    IF Cardinality(DOMAIN cfg.Data) = 0 /\ Cardinality(DOMAIN cfg.BinaryData) = 0
    THEN EmptyHash
    ELSE Only({ HexDigest(ConfigMapHashInput(cfg, SortStrings(keys))) :
                keys \in { {<<ChS, ChColon>> \o k : k \in DOMAIN cfg.Data}
                           \cup {<<ChB, ChColon>> \o k : k \in DOMAIN cfg.BinaryData} } })

\* the call of the store that fails, if one does
NoFault == "none"
Faults ==
    { NoFault, "GetConfigMap", "GetSecret", "ListConfigMaps", "ListSecrets",
      "ListDeployments", "ListDaemonSets", "ListStatefulSets",
      "PatchDeployment", "PatchDaemonSet", "PatchStatefulSet" }
CallErr(fault, op, found) ==
    IF fault = op THEN StoreErr(op) ELSE IF found THEN NoErr ELSE NotFoundErr(op)

\* what a pass leaves: the error returned, the hash it computed, the Deployments
\* c.Patch was called for, the workloads as the store holds them
Outcome(err, hash, patched, ws) == [err |-> err, hash |-> hash, patched |-> patched, workloads |-> ws]
NoOutcome == Outcome(NoErr, EmptyHash, {}, [id \in WorkloadIds |-> NoWorkload])

\* the order in which a list call returns the objects
ListOrder(ids) == CHOOSE order \in Orderings(ids) : TRUE
WorkloadItems(ws, ids) ==
    Only({ [i \in 1..Len(order) |-> [id |-> order[i], obj |-> ws[order[i]]]] :
           order \in {ListOrder(ids)} })

\* the loop of the simple Reconcile over deployments.Items
RECURSIVE SimpleLoop(_, _, _, _, _)
SimpleLoop(items, hash, ws, fault, patched) ==
    IF items = <<>> THEN Outcome(NoErr, hash, patched, ws)
    ELSE Only({
           IF item.obj.Annotations[configHashAnnotKey] = hash
           THEN SimpleLoop(Tail(items), hash, ws, fault, patched)
           ELSE IF CallErr(fault, "PatchDeployment", ws[item.id].Exists) # NoErr
           THEN Outcome(CallErr(fault, "PatchDeployment", ws[item.id].Exists), hash,
                        patched \cup {item.id}, ws)
           ELSE SimpleLoop(Tail(items), hash,
                    [ws EXCEPT ![item.id] =
                        ApplyMergePatch(@, MergeFrom(item.obj,
                            [item.obj EXCEPT !.Annotations[configHashAnnotKey] = hash]))],
                    fault, patched \cup {item.id}) :
           item \in {Head(items)} })

\* Reconcile of the simple variant for the request, on the store with workloads ws
SimpleReconcile(req, ws, fault) ==
    LET found == /\ req.Name \in DOMAIN configMaps
                 /\ configMaps[req.Name].Exists
                 /\ ObjNamespace(req.Name) = req.Namespace
        getErr == CallErr(fault, "GetConfigMap", found)
    IN  IF getErr # NoErr
        THEN Outcome(IF IsNotFound(getErr) THEN NoErr ELSE getErr, EmptyHash, {}, ws)
        ELSE IF ~BelongsToSynapse(ObjLabels(req.Name)) THEN Outcome(NoErr, EmptyHash, {}, ws)
        ELSE Only({
               IF hash = EmptyHash THEN Outcome(NoErr, hash, {}, ws)
               ELSE IF fault = "ListDeployments"
               THEN Outcome(StoreErr("ListDeployments"), hash, {}, ws)
               ELSE SimpleLoop(
                        WorkloadItems(ws, { id \in KindIds("Deployment") \cap DOMAIN ws :
                                              /\ ws[id].Exists
                                              /\ ObjNamespace(id) = req.Namespace
                                              /\ SimpleListOption(ObjLabels(id)) }),
                        hash, ws, fault, {}) :
               hash \in {simpleHashConfigMapContent(configMaps[req.Name])} })

\* one call of the generalized pass p on the store, and what Reconcile does after
\* it, for a reconciler with the given r.IgnoredConfigMapKeys, r.IgnoredSecretKeys
GeneralizedStep(p, ws, fault, ignoredConfigMapKeys, ignoredSecretKeys) ==
    CASE p.pc = "GetConfigMap" ->
            [ out |-> AfterGetConfigMap(p, CallErr(fault, "GetConfigMap",
                          /\ p.req.Name \in ConfigMapIds
                          /\ configMaps[p.req.Name].Exists
                          /\ ObjNamespace(p.req.Name) = p.req.Namespace)),
              ws |-> ws, patched |-> {} ]
      [] p.pc = "GetSecret" ->
            [ out |-> AfterGetSecret(p, CallErr(fault, "GetSecret",
                          /\ p.req.Name \in SecretIds
                          /\ secrets[p.req.Name].Exists
                          /\ ObjNamespace(p.req.Name) = p.req.Namespace)),
              ws |-> ws, patched |-> {} ]
      [] p.pc = "ListConfigMaps" ->
            [ out |-> IF fault = "ListConfigMaps"
                      THEN AfterListConfigMaps(p, StoreErr("ListConfigMaps"), <<>>)
                      ELSE Only({ AfterListConfigMaps(p, NoErr,
                                      [i \in 1..Len(order) |-> ConfigMapItem(order[i])]) :
                                  order \in { ListOrder(Listed(configMaps, ConfigMapIds,
                                                               p.req.Namespace, selector)) } }),
              ws |-> ws, patched |-> {} ]
      [] p.pc = "ListSecrets" ->
            [ out |-> IF fault = "ListSecrets"
                      THEN AfterListSecretsWith(p, StoreErr("ListSecrets"), <<>>,
                                                ignoredConfigMapKeys, ignoredSecretKeys)
                      ELSE Only({ AfterListSecretsWith(p, NoErr,
                                      [i \in 1..Len(order) |-> SecretItem(order[i])],
                                      ignoredConfigMapKeys, ignoredSecretKeys) :
                                  order \in { ListOrder(Listed(secrets, SecretIds,
                                                               p.req.Namespace, selector)) } }),
              ws |-> ws, patched |-> {} ]
      [] \E kind \in Kinds : p.pc = ListPc(kind) ->
            Only({ [ out |-> IF fault = ListPc(kind)
                             THEN AfterListWorkloads(p, kind, StoreErr(ListPc(kind)), <<>>)
                             ELSE AfterListWorkloads(p, kind, NoErr,
                                      WorkloadItems(ws, Listed(ws, KindIds(kind),
                                                               p.req.Namespace, selector))),
                     ws |-> ws, patched |-> {} ] :
                   kind \in { k \in Kinds : p.pc = ListPc(k) } })
      [] \E kind \in Kinds : p.pc = PatchPc(kind) ->
            Only({ Only({ [ out |-> AfterPatch(p, kind, res),
                            ws |-> IF res.patch # <<>> /\ res.err = NoErr
                                   THEN [ws EXCEPT ![Head(p.items).id] =
                                            ApplyMergePatch(@, res.patch[1])]
                                   ELSE ws,
                            patched |-> IF res.patch # <<>> THEN {Head(p.items).id} ELSE {} ] :
                          res \in { PatchHash(kind, Head(p.items).obj, ConfigHashAnnotation, p.hash,
                                              CallErr(fault, PatchPc(kind),
                                                      ws[Head(p.items).id].Exists)) } }) :
                   kind \in { k \in Kinds : p.pc = PatchPc(k) } })

\* Reconcile of the generalized variant from pass p to its return
RECURSIVE RunGeneralized(_, _, _, _, _, _)
RunGeneralized(p, ws, fault, patched, ignoredConfigMapKeys, ignoredSecretKeys) ==
    Only({ IF step.out.done
           THEN Outcome(step.out.err, step.out.p.hash, patched \cup step.patched, step.ws)
           ELSE RunGeneralized(step.out.p, step.ws, fault, patched \cup step.patched,
                               ignoredConfigMapKeys, ignoredSecretKeys) :
           step \in {GeneralizedStep(p, ws, fault, ignoredConfigMapKeys, ignoredSecretKeys)} })
\* with the simple variant's constants: no ignored keys
GeneralizedReconcile(req, ws, fault) ==
    RunGeneralized([IdlePass EXCEPT !.pc = "GetConfigMap", !.req = req], ws, fault, {}, {}, {})
\* as main configures it from the flags' defaults
DefaultReconcile(req, ws, fault) ==
    RunGeneralized([IdlePass EXCEPT !.pc = "GetConfigMap", !.req = req], ws, fault, {},
                   IgnoredConfigMapKeys, IgnoredSecretKeys)

\* what a Deployment is when the comparison starts
InitialDeployments ==
    { NoWorkload, [NoWorkload EXCEPT !.Exists = TRUE],
      [NoWorkload EXCEPT !.Exists = TRUE, !.Annotations[ConfigHashAnnotation] = OldMarker] }

RefineInit ==
    /\ configMaps \in [ConfigMapIds -> ConfigMapContents]
    /\ secrets = [x \in SecretIds |-> NoSecret]
    /\ \E ds \in [DeploymentIds -> InitialDeployments] :
          workloads = [id \in WorkloadIds |-> IF id \in DeploymentIds THEN ds[id] ELSE NoWorkload]
    /\ queue = {}
    /\ dirty = {}
    /\ pass = [w \in Workers |-> IdlePass]
    /\ lastResult = NoResult
    /\ budget = [changes |-> MaxChanges, failures |-> MaxFailures]
    /\ obs = InitObs
    /\ \E fault \in Faults :
          call = [ phase |-> "refine", fault |-> fault, req |-> NoRequest,
                   simple |-> NoOutcome, general |-> NoOutcome,
                   simpleAgain |-> NoOutcome, generalAgain |-> NoOutcome ]

\* the trigger delivered to each of the two reconcilers, and delivered once more
Trigger(req) ==
    /\ call.phase = "refine"
    /\ \E simple \in {SimpleReconcile(req, workloads, call.fault)} :
       \E general \in {GeneralizedReconcile(req, workloads, call.fault)} :
          call' = [call EXCEPT
                      !.req = req,
                      !.simple = simple,
                      !.general = general,
                      !.simpleAgain = SimpleReconcile(req, simple.workloads, call.fault),
                      !.generalAgain = GeneralizedReconcile(req, general.workloads, call.fault)]
    /\ UNCHANGED <<configMaps, secrets, workloads, queue, dirty, pass, lastResult, budget, obs>>

\* the store goes on from what one reconciler left
Adopt(outcome) ==
    /\ call.phase = "refine"
    /\ call.req # NoRequest
    /\ workloads' = outcome.workloads
    /\ call' = [call EXCEPT !.req = NoRequest, !.simple = NoOutcome, !.general = NoOutcome,
                            !.simpleAgain = NoOutcome, !.generalAgain = NoOutcome]
    /\ UNCHANGED <<configMaps, secrets, queue, dirty, pass, lastResult, budget, obs>>
AdoptSimple == Adopt(call.simple)
AdoptGeneralized == Adopt(call.general)

RefineNext ==
    \/ \E req \in Requests : Trigger(req)
    \/ AdoptSimple
    \/ AdoptGeneralized

RefineSpec == RefineInit /\ [][RefineNext]_vars

Triggered == call.phase = "refine" /\ call.req # NoRequest

-----------------------------------------------------------------------------
(* Passes of the generalized reconciler for a sequence of triggers.  TriggerSpec
   delivers triggers one after the other to a store with at most one kind of
   call failing; beside the pass for the trigger delivered it runs, on the same
   store, the pass every other trigger of the namespace would have started. *)

MaxTriggers == 2

\* what a workload is when the triggers start
InitialWorkloads(id) ==
    IF id = "d1" THEN InitialDeployments
    ELSE { NoWorkload, [NoWorkload EXCEPT !.Exists = TRUE] }

TriggerInit ==
    /\ configMaps \in [ConfigMapIds -> ConfigMapContents]
    /\ secrets \in [SecretIds -> SecretContents]
    /\ workloads \in { ws \in [WorkloadIds -> InitialDeployments] :
                         \A id \in WorkloadIds : ws[id] \in InitialWorkloads(id) }
    /\ queue = {}
    /\ dirty = {}
    /\ pass = [w \in Workers |-> IdlePass]
    /\ lastResult = NoResult
    /\ budget = [changes |-> MaxChanges, failures |-> MaxFailures]
    /\ obs = InitObs
    /\ \E fault \in Faults :
          call = [ phase |-> "trigger", fault |-> fault, delivered |-> <<>>,
                   before |-> workloads, last |-> NoOutcome,
                   others |-> [r \in Requests |-> NoOutcome] ]

\* the controller calls Reconcile for the trigger; the pass runs to its return
Deliver(req) ==
    /\ call.phase = "trigger"
    /\ Len(call.delivered) < MaxTriggers
    /\ \E out \in {DefaultReconcile(req, workloads, call.fault)} :
          /\ workloads' = out.workloads
          /\ call' = [call EXCEPT
                        !.delivered = Append(@, req),
                        !.before = workloads,
                        !.last = out,
                        !.others = [r \in Requests |-> DefaultReconcile(r, workloads, call.fault)]]
    /\ UNCHANGED <<configMaps, secrets, queue, dirty, pass, lastResult, budget, obs>>

TriggerNext == \E req \in Requests : Deliver(req)

TriggerSpec == TriggerInit /\ [][TriggerNext]_vars

Delivered == call.phase = "trigger" /\ call.delivered # <<>>

\* C20 as stated: the outcome of a pass (the workloads written, the value
\* written, the result) is the outcome of the pass any other trigger of the
\* namespace would have started on the same store, whatever was delivered before.
C20_TriggerTolerance ==
    Delivered => \A r \in Requests : call.others[r] = call.last

\* r.Get of the triggering name returns an error other than not-found
ProbeFails(req) ==
    \/ call.fault = "GetConfigMap"
    \/ /\ call.fault = "GetSecret"
       /\ ~(req.Name \in ConfigMapIds /\ configMaps[req.Name].Exists)

\* the workloads a pass of the namespace lists
ListedWorkloads(ws) == Listed(ws, WorkloadIds, "n1", selector)

\* C20, amended: the passes of two triggers of the namespace on the same store
\* have the same outcome unless the Get of one of the triggering names fails with
\* an error other than not-found (that pass returns the error and writes nothing);
\* and when no call fails the outcome is the one the store contents decide: nil,
\* a write of the aggregate of the listed sources to every listed workload that
\* does not carry it, whatever triggers were delivered before.
C20_TriggerToleranceBarProbe ==
    Delivered =>
        /\ \A r1, r2 \in Requests :
              (~ProbeFails(r1) /\ ~ProbeFails(r2)) => call.others[r1] = call.others[r2]
        /\ call.last = call.others[call.delivered[Len(call.delivered)]]
        /\ \A r \in Requests :
              ProbeFails(r) => /\ call.others[r].err # NoErr
                               /\ call.others[r].patched = {}
        /\ call.fault = NoFault =>
              \E hash \in {StoreHash(configMaps, secrets, "n1")} :
                 /\ call.last.err = NoErr
                 /\ call.last.patched =
                       IF hash = EmptyHash THEN {}
                       ELSE { id \in ListedWorkloads(call.before) :
                                call.before[id].Annotations[ConfigHashAnnotation] # hash }
                 /\ \A id \in call.last.patched :
                       workloads[id] =
                          [call.before[id] EXCEPT !.Annotations[ConfigHashAnnotation] = hash]
                 /\ \A id \in WorkloadIds \ call.last.patched : workloads[id] = call.before[id]

\* a trigger that names neither a ConfigMap nor a Secret rolls the workloads as
\* the trigger of the ConfigMap would
C20_Witness ==
    /\ Delivered
    /\ call.fault = NoFault
    /\ call.delivered[Len(call.delivered)].Name = "gone"
    /\ call.last.patched # {}
    /\ call.last = call.others[Request("app")]


-----------------------------------------------------------------------------
(* Whole passes of the generalized reconciler, call by call.  PassSpec holds a
   store with sources, workloads of the three kinds and two Deployments a pass
   in "n1" must not reach; at most one kind of call fails; a source may be
   deleted between two passes. *)

MaxPasses == 2

\* the calls of a pass on the store, in order: the call (pc), the workload it is
\* for, the hash the pass holds, the workloads as the call leaves them, and what
\* Reconcile does after it
RECURSIVE PassTrace(_, _, _)
PassTrace(p, ws, fault) ==
    Only({ << [ pc |-> p.pc,
                id |-> IF p.items # <<>> /\ step.patched # {} THEN Head(p.items).id ELSE "",
                hash |-> p.hash,
                write |-> step.patched # {},
                ws |-> step.ws,
                done |-> step.out.done,
                err |-> step.out.err ] >>
             \o (IF step.out.done THEN <<>> ELSE PassTrace(step.out.p, step.ws, fault)) :
           step \in {GeneralizedStep(p, ws, fault, IgnoredConfigMapKeys, IgnoredSecretKeys)} })

StoreIds == WorkloadIds \cup ForeignIds

PassInit ==
    /\ configMaps \in [ConfigMapIds -> ConfigMapContents]
    /\ secrets \in [SecretIds -> SecretContents]
    /\ \E d1 \in InitialDeployments : \E some \in SUBSET {"d2", "ds1"} :
          workloads = [id \in StoreIds |->
                         IF id = "d1" THEN d1
                         ELSE IF id \in {"d2", "ds1"} \ some THEN NoWorkload
                         ELSE [NoWorkload EXCEPT !.Exists = TRUE]]
    /\ queue = {}
    /\ dirty = {}
    /\ pass = [w \in Workers |-> IdlePass]
    /\ lastResult = NoResult
    /\ budget = [changes |-> MaxChanges, failures |-> MaxFailures]
    /\ obs = InitObs
    /\ \E fault \in Faults :
          call = [ phase |-> "pass", fault |-> fault, passes |-> 0, fresh |-> FALSE,
                   req |-> NoRequest, removed |-> {}, before |-> workloads,
                   sources |-> <<configMaps, secrets>>,
                   aggregate |-> EmptyHash, trace |-> <<>> ]

\* the controller calls Reconcile for the request; the pass runs to its return
RunPass(req) ==
    /\ call.phase = "pass"
    /\ call.passes < MaxPasses
    /\ \E trace \in {PassTrace([IdlePass EXCEPT !.pc = "GetConfigMap", !.req = req],
                               workloads, call.fault)} :
          /\ workloads' = trace[Len(trace)].ws
          /\ call' = [call EXCEPT !.passes = @ + 1, !.fresh = TRUE, !.req = req,
                                  !.before = workloads,
                                  !.sources = <<configMaps, secrets>>,
                                  !.aggregate = StoreHash(configMaps, secrets, req.Namespace),
                                  !.trace = trace]
    /\ UNCHANGED <<configMaps, secrets, queue, dirty, pass, lastResult, budget, obs>>

\* another writer deletes a source
DeleteConfigMap(id) ==
    /\ call.phase = "pass"
    /\ call.removed = {}
    /\ configMaps[id].Exists
    /\ configMaps' = [configMaps EXCEPT ![id] = NoConfigMap]
    /\ call' = [call EXCEPT !.removed = {Request(id)}, !.fresh = FALSE]
    /\ UNCHANGED <<secrets, workloads, queue, dirty, pass, lastResult, budget, obs>>
DeleteSecret(id) ==
    /\ call.phase = "pass"
    /\ call.removed = {}
    /\ secrets[id].Exists
    /\ secrets' = [secrets EXCEPT ![id] = NoSecret]
    /\ call' = [call EXCEPT !.removed = {Request(id)}, !.fresh = FALSE]
    /\ UNCHANGED <<configMaps, workloads, queue, dirty, pass, lastResult, budget, obs>>

PassNext ==
    \/ \E req \in Requests : RunPass(req)
    \/ \E id \in ConfigMapIds : DeleteConfigMap(id)
    \/ \E id \in SecretIds : DeleteSecret(id)

PassSpec == PassInit /\ [][PassNext]_vars

\* a pass has run on the store as it is now
PassDone == call.phase = "pass" /\ call.fresh
LastCall == call.trace[Len(call.trace)]
\* the request names neither a ConfigMap nor a Secret of the store
NamesNothing(req) ==
    /\ ~(req.Name \in ConfigMapIds /\ configMaps[req.Name].Exists)
    /\ ~(req.Name \in SecretIds /\ secrets[req.Name].Exists)
MarkerIn(ws, id) == ws[id].Annotations[ConfigHashAnnotation]
\* the workloads of the namespace that match and do not carry the hash
Behind(ws, namespace, hash) ==
    { id \in Listed(ws, StoreIds, namespace, selector) : MarkerIn(ws, id) # hash }
Written == { call.trace[i].id : i \in { j \in 1..Len(call.trace) : call.trace[j].write } }

\* C21: a pass for a name found neither as a ConfigMap nor as a Secret gets
\* not-found twice and goes on: when no call fails it returns nil, computes the
\* aggregate of the sources the namespace holds now and writes it to every
\* listed workload that does not carry it, as a pass for any other trigger does.
C21_NotFoundIsBenign ==
    (PassDone /\ NamesNothing(call.req)) =>
        /\ call.trace[1].pc = "GetConfigMap"
        /\ call.fault # "GetConfigMap" =>
              /\ ~call.trace[1].done
              /\ call.trace[2].pc = "GetSecret"
              /\ call.fault # "GetSecret" =>
                    /\ ~call.trace[2].done
                    /\ call.trace[3].pc = "ListConfigMaps"
        /\ call.fault = NoFault =>
              /\ LastCall.err = NoErr
              /\ LastCall.hash = call.aggregate
              /\ Written = IF call.aggregate = EmptyHash THEN {}
                           ELSE Behind(call.before, call.req.Namespace, call.aggregate)
              /\ \A id \in Written : MarkerIn(workloads, id) = call.aggregate

\* the ConfigMap was deleted after a pass had marked the workloads with the
\* aggregate of the ConfigMap and the Secret; the pass for the deleted name
\* marks them with the aggregate of the Secret
C21_Witness ==
    /\ PassDone
    /\ call.fault = NoFault
    /\ call.removed = {Request("app")}
    /\ call.req = Request("app")
    /\ NamesNothing(call.req)
    /\ call.passes = 2
    /\ "d1" \in Written
    /\ MarkerIn(call.before, "d1") \notin {<<>>, OldMarker}
    /\ MarkerIn(workloads, "d1") = call.aggregate


WriteCalls == { i \in 1..Len(call.trace) : call.trace[i].write }
CallsOf(pc) == { i \in 1..Len(call.trace) : call.trace[i].pc = pc }

\* C22: a pass ends after at most one call of c.Patch for each listed workload
\* (none for a workload that is not listed); when no call fails it returns nil
\* whether it wrote all, some or none of the workloads and whether or not a
\* workload exists, and it lists the DaemonSets and the StatefulSets also when
\* the kinds before them have no member.
C22_PassTerminates ==
    PassDone =>
        /\ \A i, j \in WriteCalls : call.trace[i].id = call.trace[j].id => i = j
        /\ Written \subseteq Listed(call.before, StoreIds, call.req.Namespace, selector)
        /\ Len(call.trace) <= 7 + Cardinality(Listed(call.before, StoreIds, call.req.Namespace, selector))
        /\ LastCall.done
        /\ \A i \in 1..(Len(call.trace) - 1) : ~call.trace[i].done
        /\ call.fault = NoFault =>
              /\ LastCall.err = NoErr
              /\ call.aggregate # EmptyHash =>
                    /\ \E i \in CallsOf("ListDeployments") :
                       \E j \in CallsOf("ListDaemonSets") :
                       \E k \in CallsOf("ListStatefulSets") : i < j /\ j < k
                    /\ Written = Behind(call.before, call.req.Namespace, call.aggregate)

\* the namespace holds no Deployment and no DaemonSet; the StatefulSet is written
C22_Witness ==
    /\ PassDone
    /\ call.fault = NoFault
    /\ Listed(call.before, KindIds("Deployment") \cup KindIds("DaemonSet"),
              call.req.Namespace, selector) = {}
    /\ Written = {"ss1"}
    /\ LastCall.err = NoErr


\* C27: a pass for namespace N calls c.Patch only for Deployments, DaemonSets and
\* StatefulSets that are in N and match the selector; the ConfigMaps and Secrets
\* are as they were, no object has appeared or disappeared, and every workload
\* in another namespace or not matching is as it was.
C27_WritesOnlySelectedWorkloads ==
    PassDone =>
        /\ \A i \in WriteCalls :
              /\ call.trace[i].pc \in { PatchPc(kind) : kind \in Kinds }
              /\ call.trace[i].id \in KindIds(KindOf(call.trace[i].id))
              /\ call.trace[i].pc = PatchPc(KindOf(call.trace[i].id))
              /\ ObjNamespace(call.trace[i].id) = call.req.Namespace
              /\ Matches(selector, ObjLabels(call.trace[i].id))
        /\ \A i \in 1..Len(call.trace) :
              call.trace[i].ws # (IF i = 1 THEN call.before ELSE call.trace[i - 1].ws)
                 => call.trace[i].write
        /\ <<configMaps, secrets>> = call.sources
        /\ \A id \in StoreIds : workloads[id].Exists = call.before[id].Exists
        /\ \A id \in StoreIds :
              (ObjNamespace(id) # call.req.Namespace \/ ~Matches(selector, ObjLabels(id)))
                 => workloads[id] = call.before[id]

\* the pass wrote a workload of "n1"; the Deployment of the other namespace and
\* the one with another label exist and do not carry the aggregate
C27_Witness ==
    /\ PassDone
    /\ call.fault = NoFault
    /\ Written # {}
    /\ \A id \in ForeignIds :
          /\ workloads[id].Exists
          /\ MarkerIn(workloads, id) # call.aggregate
          /\ workloads[id] = call.before[id]


\* C29: every c.Patch call of a pass comes after the pass has listed the sources
\* and carries the aggregate of those sources, which is not the empty string;
\* all writes of the pass carry that one value, and a marker the pass changed
\* holds it.
C29_WritesCarryAggregate ==
    PassDone =>
        /\ \A i \in WriteCalls :
              /\ call.trace[i].hash = call.aggregate
              /\ call.trace[i].hash # EmptyHash
              /\ \E j \in CallsOf("ListConfigMaps") : \E k \in CallsOf("ListSecrets") :
                    j < k /\ k < i
              /\ ~call.trace[i].done => MarkerIn(call.trace[i].ws, call.trace[i].id) = call.aggregate
        /\ \A i, j \in WriteCalls : call.trace[i].hash = call.trace[j].hash
        /\ \A id \in StoreIds :
              MarkerIn(workloads, id) # MarkerIn(call.before, id)
                 => /\ MarkerIn(workloads, id) = call.aggregate
                    /\ MarkerIn(workloads, id) # EmptyHash

\* a pass that wrote two workloads that carried different markers
C29_Witness ==
    /\ PassDone
    /\ call.fault = NoFault
    /\ {"d1", "ss1"} \subseteq Written
    /\ MarkerIn(call.before, "d1") = OldMarker
    /\ MarkerIn(call.before, "ss1") = <<>>
    /\ MarkerIn(workloads, "d1") = MarkerIn(workloads, "ss1")


-----------------------------------------------------------------------------
(* computeCombinedHash of a reconciler with any two exclusion sets, on a
   ConfigMap and a Secret that hold the same keys.  ExclusionSpec edits an entry
   of one of the two and computes the aggregate again. *)

ExcludableKeys == {KeyA, KeyB}
PlainValues == {Val1, Val2}
PlainData == UNION { [ks -> PlainValues] : ks \in SUBSET ExcludableKeys }

\* computeCombinedHash on the lists of one ConfigMap and one Secret, both named "app"
Combined(ignoredConfigMapKeys, ignoredSecretKeys, cmData, secData) ==
    [ ignoredConfigMapKeys |-> ignoredConfigMapKeys,
      ignoredSecretKeys |-> ignoredSecretKeys,
      cmData |-> cmData, secData |-> secData,
      cmHash |-> hashConfigMapContent([Data |-> cmData, BinaryData |-> <<>>], ignoredConfigMapKeys),
      secHash |-> hashSecretContent([Data |-> secData], ignoredSecretKeys),
      aggregate |-> hashConfigSources(
                        <<[Name |-> ObjName("app"), Data |-> cmData, BinaryData |-> <<>>]>>,
                        <<[Name |-> ObjName("app"), Data |-> secData]>>,
                        ignoredConfigMapKeys, ignoredSecretKeys) ]

NoEdit == [kind |-> "", key |-> <<>>]

ExclusionInit ==
    /\ Idle
    /\ \E icm \in SUBSET ExcludableKeys : \E isec \in SUBSET ExcludableKeys :
       \E cmData \in PlainData : \E secData \in PlainData :
       \E now \in {Combined(icm, isec, cmData, secData)} :
          call = [phase |-> "exclusion", edit |-> NoEdit, prev |-> now, now |-> now]

\* another writer sets or removes one entry of the ConfigMap or of the Secret
EditEntry(kind, key, data) ==
    /\ call.phase = "exclusion"
    /\ call.edit = NoEdit
    /\ data # (IF kind = "ConfigMap" THEN call.now.cmData ELSE call.now.secData)
    /\ call' = [call EXCEPT
                  !.edit = [kind |-> kind, key |-> key],
                  !.prev = call.now,
                  !.now = Combined(call.now.ignoredConfigMapKeys, call.now.ignoredSecretKeys,
                                   IF kind = "ConfigMap" THEN data ELSE call.now.cmData,
                                   IF kind = "Secret" THEN data ELSE call.now.secData)]
    /\ UNCHANGED <<configMaps, secrets, workloads, queue, dirty, pass, lastResult, budget, obs>>
SetConfigMapEntry(k, v) == EditEntry("ConfigMap", k, MapSet(call.now.cmData, k, v))
RemoveConfigMapEntry(k) == EditEntry("ConfigMap", k, MapRemove(call.now.cmData, k))
SetSecretEntry(k, v) == EditEntry("Secret", k, MapSet(call.now.secData, k, v))
RemoveSecretEntry(k) == EditEntry("Secret", k, MapRemove(call.now.secData, k))

ExclusionNext ==
    \E k \in ExcludableKeys :
        \/ \E v \in PlainValues : SetConfigMapEntry(k, v)
        \/ RemoveConfigMapEntry(k)
        \/ \E v \in PlainValues : SetSecretEntry(k, v)
        \/ RemoveSecretEntry(k)

ExclusionSpec == ExclusionInit /\ [][ExclusionNext]_vars

\* C28: an edit of a Secret's entry changes the Secret's fingerprint and the
\* aggregate exactly when the key is not in the Secret exclusion set, whether or
\* not it is in the ConfigMap exclusion set; an edit of a ConfigMap's entry
\* changes the ConfigMap's fingerprint and the aggregate exactly when the key is
\* not in the ConfigMap exclusion set, whether or not it is in the Secret one.
C28_ExclusionSetsIndependent ==
    (call.phase = "exclusion" /\ call.edit # NoEdit) =>
        /\ call.edit.kind = "Secret" =>
              /\ call.now.cmHash = call.prev.cmHash
              /\ (call.now.secHash = call.prev.secHash)
                    <=> call.edit.key \in call.now.ignoredSecretKeys
              /\ (call.now.aggregate = call.prev.aggregate)
                    <=> call.edit.key \in call.now.ignoredSecretKeys
        /\ call.edit.kind = "ConfigMap" =>
              /\ call.now.secHash = call.prev.secHash
              /\ (call.now.cmHash = call.prev.cmHash)
                    <=> call.edit.key \in call.now.ignoredConfigMapKeys
              /\ (call.now.aggregate = call.prev.aggregate)
                    <=> call.edit.key \in call.now.ignoredConfigMapKeys

\* a key excluded for ConfigMaps only is changed in the Secret: the aggregate
\* changes although the ConfigMap holds the key too
C28_Witness ==
    /\ call.phase = "exclusion"
    /\ call.edit = [kind |-> "Secret", key |-> KeyA]
    /\ call.now.ignoredConfigMapKeys = {KeyA}
    /\ call.now.ignoredSecretKeys = {KeyB}
    /\ KeyA \in DOMAIN call.now.cmData
    /\ KeyA \in DOMAIN call.now.secData
    /\ call.now.aggregate # call.prev.aggregate


-----------------------------------------------------------------------------
(* Whole passes of the simple reconciler.  SimpleSpec holds a labelled ConfigMap
   and one with another label, Deployments in and out of reach, a DaemonSet and
   a StatefulSet; at most one kind of call fails. *)

SimpleFaults == {NoFault, "GetConfigMap", "ListDeployments", "PatchDeployment"}
SimpleRequests == Requests \cup {Request(OtherConfigMapId)}
BinaryOnly == [Exists |-> TRUE, Data |-> <<>>, BinaryData |-> (AppConf :> ValX1)]
NoEntries == [Exists |-> TRUE, Data |-> <<>>, BinaryData |-> <<>>]

SimpleInit ==
    /\ \E app \in ConfigMapContents \cup {BinaryOnly, NoEntries} :
       \E cx \in {NoConfigMap, BinaryOnly} :
          configMaps = [id \in ConfigMapIds \cup {OtherConfigMapId} |->
                          IF id = OtherConfigMapId THEN cx ELSE app]
    /\ secrets = [x \in SecretIds |-> NoSecret]
    /\ \E d1 \in InitialDeployments : \E d2 \in {NoWorkload, [NoWorkload EXCEPT !.Exists = TRUE]} :
          workloads = [id \in StoreIds |->
                         IF id = "d1" THEN d1 ELSE IF id = "d2" THEN d2
                         ELSE [NoWorkload EXCEPT !.Exists = TRUE]]
    /\ queue = {}
    /\ dirty = {}
    /\ pass = [w \in Workers |-> IdlePass]
    /\ lastResult = NoResult
    /\ budget = [changes |-> MaxChanges, failures |-> MaxFailures]
    /\ obs = InitObs
    /\ \E fault \in SimpleFaults :
          call = [ phase |-> "simple", fault |-> fault, passes |-> 0, req |-> NoRequest,
                   before |-> workloads, sources |-> <<configMaps, secrets>>,
                   out |-> NoOutcome ]

\* the controller calls the simple Reconcile for the request
SimplePass(req) ==
    /\ call.phase = "simple"
    /\ call.passes < MaxPasses
    /\ \E out \in {SimpleReconcile(req, workloads, call.fault)} :
          /\ workloads' = out.workloads
          /\ call' = [call EXCEPT !.passes = @ + 1, !.req = req, !.before = workloads,
                                  !.sources = <<configMaps, secrets>>, !.out = out]
    /\ UNCHANGED <<configMaps, secrets, queue, dirty, pass, lastResult, budget, obs>>

SimpleNext == \E req \in SimpleRequests : SimplePass(req)

SimpleSpec == SimpleInit /\ [][SimpleNext]_vars

SimpleDone == call.phase = "simple" /\ call.passes > 0
\* the ConfigMap the request names: held by the store, labelled, with an entry
Found(req) == req.Name \in DOMAIN configMaps /\ configMaps[req.Name].Exists
Labelled(id) == LabelKey \in DOMAIN ObjLabels(id) /\ ObjLabels(id)[LabelKey] = "synapse"
HasEntries(cfg) == DOMAIN cfg.Data # {} \/ DOMAIN cfg.BinaryData # {}
Rolls(req) == Found(req) /\ Labelled(req.Name) /\ HasEntries(configMaps[req.Name])
\* the labelled Deployments of the namespace whose marker is not the hash
SimpleTargets(ws, namespace, hash) ==
    { id \in DeploymentIds \cup ForeignIds :
        /\ ws[id].Exists
        /\ ObjNamespace(id) = namespace
        /\ Labelled(id)
        /\ ws[id].Annotations["synapse.gen0sec.com/config-hash"] # hash }

\* C24: a pass of the simple reconciler for a ConfigMap that is not found, has
\* not the label app.kubernetes.io/name=synapse or has no entry calls c.Patch for
\* nothing and leaves the store as it was; any other pass calls c.Patch only for
\* labelled Deployments of the namespace whose marker is not the ConfigMap's
\* hash, (when no call fails) for every one of them, sets the marker to that
\* hash and changes nothing else.
C24_SimpleWrites ==
    SimpleDone =>
        /\ <<configMaps, secrets>> = call.sources
        /\ ~Rolls(call.req) =>
              /\ call.out.patched = {}
              /\ workloads = call.before
              /\ call.fault # "GetConfigMap" => call.out.err = NoErr
        /\ Rolls(call.req) /\ call.fault # "GetConfigMap" =>
              \E hash \in {simpleHashConfigMapContent(configMaps[call.req.Name])} :
                 /\ hash # EmptyHash
                 /\ call.out.hash = hash
                 /\ call.out.patched \subseteq SimpleTargets(call.before, call.req.Namespace, hash)
                 /\ \A id \in StoreIds :
                       \/ workloads[id] = call.before[id]
                       \/ /\ id \in call.out.patched
                          /\ workloads[id] =
                                [call.before[id] EXCEPT
                                    !.Annotations["synapse.gen0sec.com/config-hash"] = hash]
                 /\ call.fault = NoFault =>
                       /\ call.out.err = NoErr
                       /\ call.out.patched = SimpleTargets(call.before, call.req.Namespace, hash)
                       /\ \A id \in call.out.patched :
                             workloads[id].Annotations["synapse.gen0sec.com/config-hash"] = hash

\* a pass for the labelled ConfigMap with binaryData only wrote both Deployments
\* of the namespace and no other workload
C24_Witness ==
    /\ SimpleDone
    /\ call.fault = NoFault
    /\ call.req = Request("app")
    /\ configMaps["app"] = BinaryOnly
    /\ call.out.patched = {"d1", "d2"}
    /\ \A id \in StoreIds \ {"d1", "d2"} : workloads[id] = call.before[id]


-----------------------------------------------------------------------------
(* The flag parsers of main.  A flag value is a string of bytes; FlagSpec
   draws every value of at most MaxFlagLen bytes over the letters a and b, the
   comma, the space and the equals sign, and calls the parsers on it. *)

MaxFlagLen == 6

\* a, b, comma, space, equals sign
FlagAlphabet == {97, 98, 44, 32, 61}
FlagStrings == UNION { [1..n -> FlagAlphabet] : n \in 0..MaxFlagLen }

\* unicode.IsSpace on a byte below 0x80
IsSpace(c) == c \in {9, 10, 11, 12, 13, 32}

RECURSIVE TrimLeft(_)
TrimLeft(s) == IF s = <<>> \/ ~IsSpace(Head(s)) THEN s ELSE TrimLeft(Tail(s))

RECURSIVE TrimRight(_)
TrimRight(s) ==
    IF s = <<>> \/ ~IsSpace(s[Len(s)]) THEN s ELSE TrimRight(SubSeq(s, 1, Len(s) - 1))

\* a trim that leaves the string as it is
TrimSpaceNone(s) == s

\* strings.TrimSpace
TrimSpace(s) == TrimRight(TrimLeft(s))

RECURSIVE SplitFrom(_, _, _)
SplitFrom(s, sep, item) ==
    IF s = <<>> THEN <<item>>
    ELSE IF Head(s) = sep THEN <<item>> \o SplitFrom(Tail(s), sep, <<>>)
    ELSE SplitFrom(Tail(s), sep, Append(item, Head(s)))

\* strings.Split(s, ","): the items between the commas, at least one
Split(s) == SplitFrom(s, 44, <<>>)

\* a map[string]struct{}, or nil
NilKeySet == [nil |-> TRUE, keys |-> {}]
KeySet(keys) == [nil |-> FALSE, keys |-> keys]

\* parseKeySet returning the map it built, empty or not
parseKeySetNeverNil(value) ==
    Only({ KeySet({ TrimSpace(items[i]) : i \in 1..Len(items) } \ {<<>>}) :
             items \in {Split(value)} })

parseKeySet(value) ==
    Only({ IF Len(items) = 0 THEN NilKeySet
           ELSE Only({ IF Cardinality(entries) = 0 THEN NilKeySet ELSE KeySet(entries) :
                         entries \in {{ key \in { TrimSpace(items[i]) : i \in 1..Len(items) } :
                                          key # <<>> }} }) :
             items \in {Split(value)} })

(* labels.Parse on the strings of the alphabet: the lexer skips blanks and
   cuts identifiers, "=", "==" and ","; the parser reads the requirements
   key, key=value and key==value, separated by commas.  A requirement is
   <<key>> (the label exists) or <<key, value>>. *)
IsWhitespace(c) == c \in {32, 9, 13, 10}
IsSpecialSymbol(c) == c \in {44, 61}

RECURSIVE IdentifierLen(_)
IdentifierLen(s) ==
    IF s = <<>> \/ IsWhitespace(Head(s)) \/ IsSpecialSymbol(Head(s)) THEN 0
    ELSE 1 + IdentifierLen(Tail(s))

Token(tok, lit) == [tok |-> tok, lit |-> lit]

RECURSIVE Lex(_)
Lex(s) ==
    IF s = <<>> THEN <<>>
    ELSE IF IsWhitespace(Head(s)) THEN Lex(Tail(s))
    ELSE IF Head(s) = 44 THEN <<Token(",", <<44>>)>> \o Lex(Tail(s))
    ELSE IF Head(s) = 61
         THEN IF Len(s) >= 2 /\ s[2] = 61
              THEN <<Token("==", <<61, 61>>)>> \o Lex(SubSeq(s, 3, Len(s)))
              ELSE <<Token("=", <<61>>)>> \o Lex(Tail(s))
    ELSE Only({ <<Token("id", SubSeq(s, 1, n))>> \o Lex(SubSeq(s, n + 1, Len(s))) :
                  n \in {IdentifierLen(s)} })

ParseError == [err |-> TRUE, selector |-> {}]
ParseOk(requirements) == [err |-> FALSE, selector |-> requirements]

RECURSIVE parseRequirement(_, _)
RECURSIVE AfterRequirement(_, _)

\* Parser.parseRequirement at an identifier, then the rest of Parser.parse
parseRequirement(toks, reqs) ==
    LET key == toks[1].lit
        rest == Tail(toks)
        value == Tail(rest)
    IN  IF rest = <<>> THEN ParseOk(reqs \cup {<<key>>})
        ELSE IF rest[1].tok = "," THEN AfterRequirement(rest, reqs \cup {<<key>>})
        ELSE IF rest[1].tok \notin {"=", "=="} THEN ParseError
        ELSE IF value = <<>> THEN ParseOk(reqs \cup {<<key, <<>>>>})
        ELSE IF value[1].tok = "," THEN AfterRequirement(value, reqs \cup {<<key, <<>>>>})
        ELSE IF value[1].tok = "id"
             THEN AfterRequirement(Tail(value), reqs \cup {<<key, value[1].lit>>})
        ELSE ParseError

\* Parser.parse after a requirement: the end, or a comma and an identifier
AfterRequirement(toks, reqs) ==
    IF toks = <<>> THEN ParseOk(reqs)
    ELSE IF toks[1].tok # "," THEN ParseError
    ELSE IF Len(toks) >= 2 /\ toks[2].tok = "id" THEN parseRequirement(Tail(toks), reqs)
    ELSE ParseError

\* labels.Parse
Parse(value) ==
    Only({ IF toks = <<>> THEN ParseOk({})
           ELSE IF toks[1].tok # "id" THEN ParseError
           ELSE parseRequirement(toks, {}) : toks \in {Lex(value)} })

parseLabelSelector(value) ==
    IF TrimSpace(value) = <<>> THEN ParseOk(Everything) ELSE Parse(value)

\* a requirement that asks nothing of the value
RequirementMatchesKey(r, labels) == r[1] \in DOMAIN labels

\* Requirement.Matches
RequirementMatches(r, labels) ==
    /\ r[1] \in DOMAIN labels
    /\ Len(r) = 2 => labels[r[1]] = r[2]

\* Selector.Matches: every requirement holds of the labels
SelectorMatches(sel, labels) == \A r \in sel : RequirementMatches(r, labels)

FlagLabelKeys == {<<97>>, <<98>>}
FlagLabelValues == {<<>>, <<97>>, <<98>>}
FlagLabelSets == UNION { [ks -> FlagLabelValues] : ks \in SUBSET FlagLabelKeys }

NotParsed == [called |-> FALSE, err |-> FALSE, selector |-> {}]
NoKeySet == [called |-> FALSE, nil |-> TRUE, keys |-> {}]

FlagInit ==
    /\ Idle
    /\ \E value \in FlagStrings :
          call = [ phase |-> "flag", value |-> value, keys |-> NoKeySet,
                   parsed |-> NotParsed, LabelSelector |-> NilSelector ]

\* main calls parseKeySet on a flag value
CallParseKeySet ==
    /\ call.phase = "flag"
    /\ ~call.keys.called /\ ~call.parsed.called
    /\ \E set \in {parseKeySet(call.value)} :
          call' = [call EXCEPT !.keys = [called |-> TRUE, nil |-> set.nil, keys |-> set.keys]]
    /\ UNCHANGED <<configMaps, secrets, workloads, queue, dirty, pass, lastResult, budget, obs>>

\* main calls parseLabelSelector on a flag value and, without an error, sets
\* the reconciler's LabelSelector
CallParseLabelSelector ==
    /\ call.phase = "flag"
    /\ ~call.keys.called /\ ~call.parsed.called
    /\ \E res \in {parseLabelSelector(call.value)} :
          call' = [call EXCEPT
                     !.parsed = [called |-> TRUE, err |-> res.err, selector |-> res.selector],
                     !.LabelSelector = IF res.err THEN NilSelector ELSE Parsed(res.selector)]
    /\ UNCHANGED <<configMaps, secrets, workloads, queue, dirty, pass, lastResult, budget, obs>>

FlagNext == CallParseKeySet \/ CallParseLabelSelector

FlagSpec == FlagInit /\ [][FlagNext]_vars

\* s[i..j] is an item of s: it holds no comma and lies between commas or ends
IsItem(s, i, j) ==
    /\ i = 1 \/ s[i - 1] = 44
    /\ j = Len(s) \/ s[j + 1] = 44
    /\ \A n \in i..j : s[n] # 44
\* key is the item s[i..j] without the blanks around it, and is not empty
IsKeyOf(key, s, i, j) ==
    /\ key # <<>>
    /\ \E a \in i..j : \E b \in a..j :
          /\ key = SubSeq(s, a, b)
          /\ s[a] # 32 /\ s[b] # 32
          /\ \A n \in (i..j) \ (a..b) : s[n] = 32
ItemKeys(s) ==
    { SubSeq(s, a, b) : <<a, b>> \in
        { p \in (1..Len(s)) \X (1..Len(s)) :
            /\ p[1] <= p[2]
            /\ \E i \in 1..p[1] : \E j \in p[2]..Len(s) :
                  IsItem(s, i, j) /\ IsKeyOf(SubSeq(s, p[1], p[2]), s, i, j)
                  /\ \A n \in (i..j) \ (p[1]..p[2]) : s[n] = 32 } }

\* C25: parseKeySet returns the set of the non-empty items of the value cut at
\* its commas and stripped of the blanks around them, each once, and nil when
\* there is no such item, the empty value included.
C25_ParseKeySet ==
    call.phase = "flag" /\ call.keys.called =>
        /\ call.keys.keys = ItemKeys(call.value)
        /\ call.keys.nil <=> ItemKeys(call.value) = {}
        /\ call.value = <<>> => call.keys.nil

\* "a, a ,b": a repeated item, blanks around items, two keys
C25_Witness ==
    /\ call.phase = "flag" /\ call.keys.called
    /\ call.value = <<97, 44, 32, 97, 44, 98>>
    /\ call.keys.keys = {<<97>>, <<98>>}
    /\ ~call.keys.nil

\* the value is blank, or an item list of k=v with letters only around one "="
Letters(s) == \A n \in 1..Len(s) : s[n] \in {97, 98}
IsPairList(s) ==
    \A i \in 1..Len(Split(s)) :
       \E item \in {TrimLeft(TrimRight(Split(s)[i]))} :
          \E n \in 1..Len(item) :
             /\ item[n] = 61
             /\ n > 1 /\ Letters(SubSeq(item, 1, n - 1))
             /\ Letters(SubSeq(item, n + 1, Len(item)))
PairList(s) ==
    { Only({ <<SubSeq(item, 1, n - 1), SubSeq(item, n + 1, Len(item))>> :
               n \in { m \in 1..Len(item) : item[m] = 61 } }) :
        item \in { TrimLeft(TrimRight(Split(s)[i])) : i \in 1..Len(Split(s)) } }
Blank(s) == \A n \in 1..Len(s) : s[n] = 32

\* C26: parseLabelSelector returns without error a selector matching every
\* label set for a blank value, and for a comma-separated list of key=value
\* requirements a selector matching exactly the label sets that carry every
\* key with its value; a reconciler whose LabelSelector is unset selects with
\* a selector matching every label set.
C26_ParseLabelSelector ==
    /\ call.phase = "flag" /\ call.LabelSelector.nil =>
          \A labels \in FlagLabelSets : SelectorMatches(selectorOf(call.LabelSelector), labels)
    /\ call.phase = "flag" /\ call.parsed.called =>
          /\ Blank(call.value) =>
                /\ ~call.parsed.err
                /\ \A labels \in FlagLabelSets : SelectorMatches(call.parsed.selector, labels)
          /\ ~Blank(call.value) /\ IsPairList(call.value) =>
                /\ ~call.parsed.err
                /\ \A labels \in FlagLabelSets :
                      SelectorMatches(selectorOf(call.LabelSelector), labels) <=>
                         \A kv \in PairList(call.value) :
                            kv[1] \in DOMAIN labels /\ labels[kv[1]] = kv[2]

\* "a=b,b=": two requirements, one on the empty value
C26_Witness ==
    /\ call.phase = "flag" /\ call.parsed.called /\ ~call.parsed.err
    /\ call.value = <<97, 61, 98, 44, 98, 61>>
    /\ SelectorMatches(call.parsed.selector, (<<97>> :> <<98>>) @@ (<<98>> :> <<>>))
    /\ ~SelectorMatches(call.parsed.selector, (<<97>> :> <<98>>))
    /\ ~SelectorMatches(call.parsed.selector, (<<97>> :> <<98>>) @@ (<<98>> :> <<97>>))


-----------------------------------------------------------------------------
(* The start of the process: main from flag.Parse to mgr.Start.  StartupSpec
   draws the --config-hash-annotation and --label-selector values; creating the
   manager, setting up the controller and the checks, and starting the manager
   succeed or fail. *)

MaxAnnotationLen == 2
MaxSelectorLen == 3

\* space, tab, k
AnnotationAlphabet == {32, 9, 107}
AnnotationStrings == UNION { [1..n -> AnnotationAlphabet] : n \in 0..MaxAnnotationLen }
SelectorStrings == UNION { [1..n -> FlagAlphabet] : n \in 0..MaxSelectorLen }

StartupInit ==
    /\ Idle
    /\ \E configHashAnnotation \in AnnotationStrings : \E labelSelector \in SelectorStrings :
          call = [ phase |-> "startup", pc |-> "CheckAnnotation",
                   configHashAnnotation |-> configHashAnnotation,
                   labelSelector |-> labelSelector,
                   LabelSelector |-> NilSelector,
                   manager |-> "none", controller |-> FALSE, code |-> 0 ]

Exit(code) == [call EXCEPT !.pc = "exited", !.code = code]
At(pc) == call.phase = "startup" /\ call.pc = pc
StartupUnchanged ==
    UNCHANGED <<configMaps, secrets, workloads, queue, dirty, pass, lastResult, budget, obs>>

\* if strings.TrimSpace(configHashAnnotation) == "" { os.Exit(1) }
CheckAnnotation ==
    /\ At("CheckAnnotation")
    /\ call' = IF TrimSpace(call.configHashAnnotation) = <<>> THEN Exit(1)
               ELSE [call EXCEPT !.pc = "ParseSelector"]
    /\ StartupUnchanged

\* selector, err := parseLabelSelector(labelSelector); os.Exit(1) on an error
ParseSelector ==
    /\ At("ParseSelector")
    /\ \E res \in {parseLabelSelector(call.labelSelector)} :
          call' = IF res.err THEN Exit(1)
                  ELSE [call EXCEPT !.pc = "NewManager", !.LabelSelector = Parsed(res.selector)]
    /\ StartupUnchanged

\* ctrl.NewManager
NewManager ==
    /\ At("NewManager")
    /\ \E ok \in BOOLEAN :
          call' = IF ok THEN [call EXCEPT !.pc = "SetupWithManager", !.manager = "created"]
                  ELSE Exit(1)
    /\ StartupUnchanged

\* (&controllers.ConfigMapReconciler{...}).SetupWithManager(mgr) and the checks
SetupController ==
    /\ At("SetupWithManager")
    /\ \E ok \in BOOLEAN :
          call' = IF ok THEN [call EXCEPT !.pc = "Start", !.controller = TRUE]
                  ELSE Exit(1)
    /\ StartupUnchanged

\* mgr.Start
StartManager ==
    /\ At("Start")
    /\ call' = [call EXCEPT !.pc = "running", !.manager = "started"]
    /\ StartupUnchanged

\* mgr.Start returns an error
ManagerFails ==
    /\ At("running")
    /\ call' = Exit(1)
    /\ StartupUnchanged

StartupNext ==
    \/ CheckAnnotation
    \/ ParseSelector
    \/ NewManager
    \/ SetupController
    \/ StartManager
    \/ ManagerFails

StartupSpec == StartupInit /\ [][StartupNext]_vars

\* the annotation key holds nothing but white space
BlankAnnotation == \A n \in 1..Len(call.configHashAnnotation) : IsSpace(call.configHashAnnotation[n])
BadSelector == ~Blank(call.labelSelector) /\ Parse(call.labelSelector).err
InvalidFlags == BlankAnnotation \/ BadSelector

\* C23: with an annotation key that is empty or white space only, or a label
\* selector that does not parse, main exits with code 1 at its checks: the
\* manager is never created or started and no controller is set up.
C23_InvalidFlagsExit ==
    call.phase = "startup" /\ InvalidFlags =>
        /\ call.pc \in {"CheckAnnotation", "ParseSelector", "exited"}
        /\ call.manager = "none"
        /\ ~call.controller
        /\ call.pc = "exited" => call.code = 1
        /\ call.pc = "ParseSelector" => ~BlankAnnotation

\* main exited on the selector "a," with the annotation key "k"
C23_Witness ==
    /\ call.phase = "startup"
    /\ call.pc = "exited"
    /\ call.configHashAnnotation = <<107>>
    /\ call.labelSelector = <<97, 44>>
    /\ call.manager = "none"


-----------------------------------------------------------------------------
(* What starts a pass, in Spec *)

\* a step of another writer on a workload
WorkloadEvent == workloads' # workloads /\ pass' = pass
NothingPending == queue = {} /\ dirty = {} /\ \A w \in Workers : ~InFlight(w)
PendingRequests == queue \cup dirty \cup { pass[w].req : w \in { v \in Workers : InFlight(v) } }

\* C30: only ConfigMap and Secret events put a request on the queue: a step of
\* another writer that creates a workload or changes its marker leaves the
\* queue as it is, a step that adds a request changes no workload, and while
\* nothing is queued or in flight no pass starts, so the workloads stay as the
\* writers leave them.
C30_OnlySourceEventsTrigger ==
    [][ /\ WorkloadEvent => UNCHANGED <<queue, dirty>>
        /\ ~((queue' \cup dirty') \subseteq PendingRequests) => workloads' = workloads
        /\ NothingPending /\ queue' = {} => pass' = pass
        /\ NothingPending /\ workloads' # workloads => WorkloadEvent ]_vars

\* after a pass that returned nil, with the sources as they were, another
\* writer changed a workload that now carries a marker other than the
\* aggregate, and nothing is queued
C30_Witness ==
    /\ NothingPending
    /\ obs.returned # 0
    /\ lastResult.err = NoErr
    /\ ~obs.srcChanged
    /\ StoreHash(configMaps, secrets, "n1") # EmptyHash
    /\ \E id \in obs.touched :
          /\ workloads[id].Exists
          /\ MarkerOf(workloads[id]) # StoreHash(configMaps, secrets, "n1")
          /\ \E other \in WorkloadIds \ {id} :
                /\ workloads[other].Exists
                /\ MarkerOf(workloads[other]) = StoreHash(configMaps, secrets, "n1")


-----------------------------------------------------------------------------
(* The simple reconciler with two labelled ConfigMaps in one namespace.
   AlternateSpec holds the ConfigMaps "app" and "app2", both labelled, and
   delivers triggers for the one or the other, at most MaxAlternations. *)

MaxAlternations == 3

SecondConfigMapId == "app2"
LabelledConfigMapIds == ConfigMapIds \cup {SecondConfigMapId}

ContentOf(data) == [Exists |-> TRUE, Data |-> data, BinaryData |-> <<>>]
\* {"a": "1", "b": "2"} and {"a": "1\x00sb\x002"}
TwoEntries == ContentOf((KeyA :> Val1) @@ (KeyB :> Val2))
OneEntryWithNul == ContentOf((KeyA :> ValNul("ConfigMap")))
AlternateContents ==
    { NoConfigMap, NoEntries, ContentOf((KeyA :> Val1)), ContentOf((KeyA :> Val2)),
      TwoEntries, OneEntryWithNul }

AlternateInit ==
    /\ configMaps \in [LabelledConfigMapIds -> AlternateContents]
    /\ secrets = [x \in SecretIds |-> NoSecret]
    /\ \E d1 \in InitialDeployments : \E d2 \in {NoWorkload, [NoWorkload EXCEPT !.Exists = TRUE]} :
          workloads = [id \in StoreIds |->
                         IF id = "d1" THEN d1 ELSE IF id = "d2" THEN d2
                         ELSE [NoWorkload EXCEPT !.Exists = TRUE]]
    /\ queue = {}
    /\ dirty = {}
    /\ pass = [w \in Workers |-> IdlePass]
    /\ lastResult = NoResult
    /\ budget = [changes |-> MaxChanges, failures |-> MaxFailures]
    /\ obs = InitObs
    /\ \E fault \in SimpleFaults :
          call = [ phase |-> "alternate", fault |-> fault, passes |-> 0,
                   req |-> NoRequest, prevReq |-> NoRequest,
                   before |-> workloads, out |-> NoOutcome, prevOut |-> NoOutcome ]

\* the controller calls the simple Reconcile for a trigger of the ConfigMap
TriggerPass(id) ==
    /\ call.phase = "alternate"
    /\ call.passes < MaxAlternations
    /\ \E out \in {SimpleReconcile(Request(id), workloads, call.fault)} :
          /\ workloads' = out.workloads
          /\ call' = [call EXCEPT !.passes = @ + 1, !.req = Request(id), !.prevReq = call.req,
                                  !.before = workloads, !.out = out, !.prevOut = call.out]
    /\ UNCHANGED <<configMaps, secrets, queue, dirty, pass, lastResult, budget, obs>>

AlternateNext == \E id \in LabelledConfigMapIds : TriggerPass(id)

AlternateSpec == AlternateInit /\ [][AlternateNext]_vars

\* the labelled Deployments of the namespace that exist
LabelledDeployments(ws, namespace) ==
    { id \in DeploymentIds \cup ForeignIds :
        ws[id].Exists /\ ObjNamespace(id) = namespace /\ Labelled(id) }
\* two passes without a failing call, the last for the other ConfigMap
Alternated ==
    /\ call.phase = "alternate"
    /\ call.fault = NoFault
    /\ call.passes >= 2
    /\ call.req # call.prevReq
\* both ConfigMaps exist, with entries
BothHaveEntries ==
    \A id \in LabelledConfigMapIds : configMaps[id].Exists /\ HasEntries(configMaps[id])
DifferentContent == configMaps["app"] # configMaps[SecondConfigMapId]
DifferentFingerprints ==
    simpleHashConfigMapContent(configMaps["app"])
        # simpleHashConfigMapContent(configMaps[SecondConfigMapId])
\* some trigger of the two makes its pass write
NoFixedPoint ==
    \E id \in LabelledConfigMapIds :
       SimpleReconcile(Request(id), workloads, NoFault).patched # {}

\* C31: a pass of the simple reconciler writes the fingerprint of the ConfigMap
\* of its trigger alone; with two labelled ConfigMaps of different non-empty
\* content in the namespace, a pass for the one after a pass for the other
\* writes every labelled Deployment of the namespace, and from no state do both
\* triggers leave the Deployments as they are.
C31_AlternatingTriggersRewrite ==
    /\ call.phase = "alternate" /\ call.passes > 0 /\ call.fault = NoFault
       /\ Rolls(call.req) =>
          /\ call.out.hash = simpleHashConfigMapContent(configMaps[call.req.Name])
          /\ \A id \in call.out.patched : MarkerOf(workloads[id]) = call.out.hash
    /\ Alternated /\ BothHaveEntries /\ DifferentContent =>
          /\ call.out.patched = LabelledDeployments(call.before, call.req.Namespace)
          /\ LabelledDeployments(workloads, "n1") # {} => NoFixedPoint

\* the same for two ConfigMaps whose fingerprints differ
C31_AlternatingTriggersRewriteDistinctFingerprints ==
    /\ call.phase = "alternate" /\ call.passes > 0 /\ call.fault = NoFault
       /\ Rolls(call.req) =>
          /\ call.out.hash = simpleHashConfigMapContent(configMaps[call.req.Name])
          /\ \A id \in call.out.patched : MarkerOf(workloads[id]) = call.out.hash
    /\ Alternated /\ BothHaveEntries /\ DifferentFingerprints =>
          /\ call.out.patched = LabelledDeployments(call.before, call.req.Namespace)
          /\ LabelledDeployments(workloads, "n1") # {} => NoFixedPoint

\* three alternating passes over two ConfigMaps of different fingerprints, each
\* of the last two writing both Deployments
C31_DistinctFingerprintsReached ==
    /\ Alternated /\ BothHaveEntries /\ DifferentFingerprints
    /\ call.passes = 3
    /\ call.out.patched = {"d1", "d2"}
    /\ call.prevOut.patched = {"d1", "d2"}

\* two ConfigMaps of different content and one fingerprint: the pass for the
\* second wrote nothing
C31_SameFingerprintReached ==
    /\ Alternated /\ BothHaveEntries /\ DifferentContent
    /\ ~DifferentFingerprints
    /\ LabelledDeployments(workloads, "n1") # {}
    /\ call.out.patched = {}
    /\ ~NoFixedPoint

====
